---- MODULE Spec2Model ----
(***************************************************************************)
(* msicrafter: the transform engine and the session / retry layer.         *)
(*                                                                         *)
(* Strings are sequences of one-character strings, so that trimming,       *)
(* splitting and quoting are computed as the Go code computes them.        *)
(* The Windows Installer database is the environment: each call on it      *)
(* (OpenDatabase, OpenView, Execute, Fetch, Commit) succeeds, fails or     *)
(* panics nondeterministically, and a failure message may or may not carry *)
(* one of the transient-failure tokens.                                    *)
(***************************************************************************)
EXTENDS Integers, Sequences, FiniteSets, TLC

(***************************************************************************)
(* Bounds of the model.                                                    *)
(***************************************************************************)
MaxLines == 2
MaxDepth == 3
MaxRows == 1

(***************************************************************************)
(* Program constants.                                                      *)
(***************************************************************************)
OpenMaxRetries == 3
OuterMaxRetries == 3

(***************************************************************************)
(* String helpers (package strings).                                       *)
(***************************************************************************)
WS == {" ", "\t", "\n", "\r"}

\* the backquote character (the lexer does not take it inside a string)
BackQuote == "bq"

RECURSIVE TrimLeft(_)
TrimLeft(s) ==
    IF s = <<>> THEN s
    ELSE IF Head(s) \in WS THEN TrimLeft(Tail(s)) ELSE s

RECURSIVE TrimRight(_)
TrimRight(s) ==
    IF s = <<>> THEN s
    ELSE IF s[Len(s)] \in WS THEN TrimRight(SubSeq(s, 1, Len(s) - 1)) ELSE s

TrimSpace(s) == TrimRight(TrimLeft(s))

HasPrefixAt(s, pat, i) ==
    /\ i + Len(pat) - 1 <= Len(s)
    /\ \A j \in 1..Len(pat) : s[i + j - 1] = pat[j]

\* strings.Index, 1-based; 0 when pat does not occur in s.
IndexOf(s, pat) ==
    LET hits == {i \in 1..Len(s) : HasPrefixAt(s, pat, i)}
    IN  IF hits = {} THEN 0 ELSE CHOOSE i \in hits : \A j \in hits : i <= j

\* strings.SplitN(s, sep, 2)
SplitN2(s, sep) ==
    LET i == IndexOf(s, sep)
    IN  IF i = 0 THEN <<s>>
        ELSE <<SubSeq(s, 1, i - 1), SubSeq(s, i + Len(sep), Len(s))>>

\* strings.Split(s, sep) for a non-empty sep
RECURSIVE Split(_, _)
Split(s, sep) ==
    LET i == IndexOf(s, sep)
    IN  IF i = 0 THEN <<s>>
        ELSE <<SubSeq(s, 1, i - 1)>> \o Split(SubSeq(s, i + Len(sep), Len(s)), sep)

\* strings.Join(parts, sep)
RECURSIVE Join(_, _)
Join(parts, sep) ==
    IF parts = <<>> THEN <<>>
    ELSE IF Len(parts) = 1 THEN parts[1]
    ELSE parts[1] \o sep \o Join(Tail(parts), sep)

LowerLetters == <<"a", "b", "c", "d", "e", "f", "g", "h", "i", "j", "k", "l", "m",
                  "n", "o", "p", "q", "r", "s", "t", "u", "v", "w", "x", "y", "z">>
UpperLetters == <<"A", "B", "C", "D", "E", "F", "G", "H", "I", "J", "K", "L", "M",
                  "N", "O", "P", "Q", "R", "S", "T", "U", "V", "W", "X", "Y", "Z">>

MapLetter(c, from, to) ==
    IF \E i \in 1..Len(from) : from[i] = c
    THEN to[CHOOSE i \in 1..Len(from) : from[i] = c]
    ELSE c

\* strings.ToLower, strings.ToUpper (ASCII)
ToLower(s) == [i \in 1..Len(s) |-> MapLetter(s[i], UpperLetters, LowerLetters)]
ToUpper(s) == [i \in 1..Len(s) |-> MapLetter(s[i], LowerLetters, UpperLetters)]

HasPrefix(s, pat) == HasPrefixAt(s, pat, 1)

\* fmt's %d for a natural number
DigitOf(d) == CASE d = 0 -> "0" [] d = 1 -> "1" [] d = 2 -> "2" [] d = 3 -> "3"
                [] d = 4 -> "4" [] d = 5 -> "5" [] d = 6 -> "6" [] d = 7 -> "7"
                [] d = 8 -> "8" [] OTHER -> "9"

RECURSIVE Itoa(_)
Itoa(n) == IF n < 10 THEN <<DigitOf(n)>> ELSE Itoa(n \div 10) \o <<DigitOf(n % 10)>>

(***************************************************************************)
(* The diff parser and the SQL builder.                                    *)
(***************************************************************************)
Arrow == <<"=", ">">>
Pipe == <<"|">>
Quote == <<"'">>

NoParse == [err |-> "none", op |-> "", table |-> <<>>, values |-> <<>>]

\* parseDiffLine without the check of the table name
parseDiffLineNoTableCheck(raw) ==
    LET line == TrimSpace(raw)
        op == line[1]
        parts == SplitN2(SubSeq(line, 2, Len(line)), Arrow)
        table == TrimSpace(parts[1])
        valStr == TrimSpace(parts[2])
        vals == Split(valStr, Pipe)
    IN  IF Len(line) < 3 THEN [NoParse EXCEPT !.err = "short"]
        ELSE IF op # "+" /\ op # "-" THEN [NoParse EXCEPT !.err = "op", !.op = op]
        ELSE IF Len(parts) # 2 THEN [NoParse EXCEPT !.err = "arrow", !.op = op]
        ELSE IF valStr = <<>> THEN [NoParse EXCEPT !.op = op, !.table = table]
        ELSE [err |-> "none", op |-> op, table |-> table,
              values |-> [i \in 1..Len(vals) |-> TrimSpace(vals[i])]]

\* parseDiffLine without the trim of each value
parseDiffLineUntrimmed(raw) ==
    LET line == TrimSpace(raw)
        op == line[1]
        parts == SplitN2(SubSeq(line, 2, Len(line)), Arrow)
        table == TrimSpace(parts[1])
        valStr == TrimSpace(parts[2])
    IN  IF Len(line) < 3 THEN [NoParse EXCEPT !.err = "short"]
        ELSE IF op # "+" /\ op # "-" THEN [NoParse EXCEPT !.err = "op", !.op = op]
        ELSE IF Len(parts) # 2 THEN [NoParse EXCEPT !.err = "arrow", !.op = op]
        ELSE IF table = <<>> THEN [NoParse EXCEPT !.err = "table", !.op = op]
        ELSE IF valStr = <<>> THEN [NoParse EXCEPT !.op = op, !.table = table]
        ELSE [err |-> "none", op |-> op, table |-> table, values |-> Split(valStr, Pipe)]

parseDiffLine(raw) ==
    LET line == TrimSpace(raw)
        op == line[1]
        parts == SplitN2(SubSeq(line, 2, Len(line)), Arrow)
        table == TrimSpace(parts[1])
        valStr == TrimSpace(parts[2])
        vals == Split(valStr, Pipe)
    IN  IF Len(line) < 3 THEN [NoParse EXCEPT !.err = "short"]
        ELSE IF op # "+" /\ op # "-" THEN [NoParse EXCEPT !.err = "op", !.op = op]
        ELSE IF Len(parts) # 2 THEN [NoParse EXCEPT !.err = "arrow", !.op = op]
        ELSE IF table = <<>> THEN [NoParse EXCEPT !.err = "table", !.op = op]
        ELSE IF valStr = <<>> THEN [NoParse EXCEPT !.op = op, !.table = table]
        ELSE [err |-> "none", op |-> op, table |-> table,
              values |-> [i \in 1..Len(vals) |-> TrimSpace(vals[i])]]

\* escape leaving the text as it is
escapeNothing(s) == s

\* strings.ReplaceAll(s, "'", "''")
RECURSIVE escape(_)
escape(s) ==
    IF s = <<>> THEN <<>>
    ELSE IF Head(s) = "'" THEN <<"'", "'">> \o escape(Tail(s))
    ELSE <<Head(s)>> \o escape(Tail(s))

InsertPrefix == <<"I", "N", "S", "E", "R", "T", " ", "I", "N", "T", "O", " ", BackQuote>>
InsertMid == <<BackQuote, " ", "V", "A", "L", "U", "E", "S", " ", "(">>
DeletePrefix == <<"D", "E", "L", "E", "T", "E", " ", "F", "R", "O", "M", " ", BackQuote>>
DeleteMid == <<BackQuote, " ", "W", "H", "E", "R", "E", " ">>
AndSep == <<" ", "A", "N", "D", " ">>
ColPrefix == <<"C", "O", "L">>

buildSQL(op, table, vals) ==
    IF op = "+" THEN
        InsertPrefix \o table \o InsertMid
          \o Join([i \in 1..Len(vals) |-> Quote \o escape(vals[i]) \o Quote], <<",">>)
          \o <<")">>
    ELSE IF op = "-" THEN
        DeletePrefix \o table \o DeleteMid
          \o Join([i \in 1..Len(vals) |->
                     ColPrefix \o Itoa(i) \o <<"=">> \o Quote \o escape(vals[i]) \o Quote],
                  AndSep)
    ELSE <<>>

(***************************************************************************)
(* SQL texts built by the session layer and the table readers.             *)
(***************************************************************************)
KwSelect == <<"S", "E", "L", "E", "C", "T">>
KwUpdate == <<"U", "P", "D", "A", "T", "E">>
KwFrom == <<"F", "R", "O", "M">>
SelectAllPrefix == <<"S", "E", "L", "E", "C", "T", " ", "*", " ", "F", "R", "O", "M", " ", BackQuote>>
CountPrefix == <<"S", "E", "L", "E", "C", "T", " ", "C", "O", "U", "N", "T", "(", "*", ")", " ",
                 "F", "R", "O", "M", " ", BackQuote, "_", "C", "o", "l", "u", "m", "n", "s",
                 BackQuote, " ", "W", "H", "E", "R", "E", " ", BackQuote, "T", "a", "b", "l",
                 "e", BackQuote, "=", "'">>
ColumnsPrefix == <<"S", "E", "L", "E", "C", "T", " ", BackQuote, "C", "o", "l", "u", "m", "n",
                   BackQuote, " ", "F", "R", "O", "M", " ", BackQuote, "_", "C", "o", "l", "u",
                   "m", "n", "s", BackQuote, " ", "W", "H", "E", "R", "E", " ", BackQuote, "T",
                   "a", "b", "l", "e", BackQuote, "=", "'">>
DistinctSQL == <<"S", "E", "L", "E", "C", "T", " ", "D", "I", "S", "T", "I", "N", "C", "T", " ",
                 BackQuote, "T", "a", "b", "l", "e", BackQuote, " ", "F", "R", "O", "M", " ",
                 BackQuote, "_", "C", "o", "l", "u", "m", "n", "s", BackQuote>>
TablesName == <<"_", "T", "a", "b", "l", "e", "s">>

SelectAllSQL(table) == SelectAllPrefix \o table \o <<BackQuote>>
CountSQL(table) == CountPrefix \o table \o Quote
ColumnsSQL(table) == ColumnsPrefix \o table \o Quote

CommonTables ==
    << <<"P", "r", "o", "p", "e", "r", "t", "y">>,
       <<"D", "i", "r", "e", "c", "t", "o", "r", "y">>,
       <<"F", "e", "a", "t", "u", "r", "e">>,
       <<"C", "o", "m", "p", "o", "n", "e", "n", "t">>,
       <<"F", "i", "l", "e">>,
       <<"B", "i", "n", "a", "r", "y">>,
       <<"M", "e", "d", "i", "a">>,
       <<"R", "e", "g", "i", "s", "t", "r", "y">>,
       <<"S", "h", "o", "r", "t", "c", "u", "t">>,
       <<"C", "u", "s", "t", "o", "m", "A", "c", "t", "i", "o", "n">>,
       <<"I", "n", "s", "t", "a", "l", "l", "E", "x", "e", "c", "u", "t", "e", "S", "e", "q",
         "u", "e", "n", "c", "e">> >>

extractTableName(sqlText) ==
    LET sql == ToUpper(TrimSpace(sqlText))
        fromIdx == IndexOf(sql, KwFrom)
        rest == TrimSpace(SubSeq(sql, fromIdx + 4, Len(sql)))
        inner == SubSeq(rest, 2, Len(rest))
        endQ == IndexOf(inner, <<BackQuote>>)
        endS == IndexOf(rest, <<" ">>)
    IN  IF ~(HasPrefix(sql, KwSelect) \/ HasPrefix(sql, KwUpdate)) THEN <<>>
        ELSE IF fromIdx = 0 THEN <<>>
        ELSE IF HasPrefix(rest, <<BackQuote>>)
             THEN (IF endQ # 0 THEN SubSeq(inner, 1, endQ - 1) ELSE <<>>)
        ELSE IF endS # 0 THEN SubSeq(rest, 1, endS - 1)
        ELSE rest

(***************************************************************************)
(* The transform document reader and the statement builder.                *)
(***************************************************************************)
RECURSIVE loadDiffLinesKeepingBlank(_)
loadDiffLinesKeepingBlank(d) ==
    IF d = <<>> THEN <<>>
    ELSE <<TrimSpace(Head(d))>> \o loadDiffLinesKeepingBlank(Tail(d))

RECURSIVE loadDiffLines(_)
loadDiffLines(d) ==
    IF d = <<>> THEN <<>>
    ELSE LET txt == TrimSpace(Head(d))
         IN  (IF txt # <<>> THEN <<txt>> ELSE <<>>) \o loadDiffLines(Tail(d))

RECURSIVE BuildQueriesPrepending(_, _)
BuildQueriesPrepending(ls, k) ==
    IF k > Len(ls) THEN <<>>
    ELSE LET p == parseDiffLine(ls[k])
         IN  BuildQueriesPrepending(ls, k + 1)
             \o (IF p.err # "none" THEN <<>>
                 ELSE <<[line |-> k, sql |-> buildSQL(p.op, p.table, p.values),
                         rec |-> p]>>)

\* The first loop of ApplyTransform: one statement per line that parses.
RECURSIVE BuildQueries(_, _)
BuildQueries(ls, k) ==
    IF k > Len(ls) THEN <<>>
    ELSE LET p == parseDiffLine(ls[k])
         IN  (IF p.err # "none" THEN <<>>
              ELSE <<[line |-> k, sql |-> buildSQL(p.op, p.table, p.values), rec |-> p]>>)
             \o BuildQueries(ls, k + 1)

\* The warnings that loop logs: one per line that does not parse.
BuildWarnings(ls) == Cardinality({k \in 1..Len(ls) : parseDiffLine(ls[k]).err # "none"})

confirmQueryAlways(answer) == TRUE
confirmQuery(answer) ==
    LET line == TrimSpace(ToLower(answer))
    IN  line = <<"y">> \/ line = <<"y", "e", "s">>

(***************************************************************************)
(* What the database does with a statement whose Execute succeeds: an      *)
(* INSERT appends the row, a DELETE removes the rows of the table whose    *)
(* i-th column equals the i-th value (the COLi placeholders taken as the   *)
(* table's columns).                                                       *)
(***************************************************************************)
RowMatches(row, rec) ==
    /\ row.table = rec.table
    /\ \A i \in 1..Len(rec.values) : i <= Len(row.cols) /\ row.cols[i] = rec.values[i]

DbExecute(rows, rec) ==
    IF rec.op = "+" THEN Append(rows, [table |-> rec.table, cols |-> rec.values])
    ELSE LET Keep(r) == ~RowMatches(r, rec) IN SelectSeq(rows, Keep)

\* the rows of a table of the package, as the snapshot a reader returns
SnapshotOf(rows, table) ==
    LET OfTable(r) == r.table = table
        kept == SelectSeq(rows, OfTable)
    IN  [i \in 1..Len(kept) |-> kept[i].cols]

(***************************************************************************)
(* Inputs.                                                                 *)
(***************************************************************************)
LineAdd == <<"+", " ", "T", " ", "=", ">", " ", "a", "|", "b">>
LineRem == <<"-", " ", "T", " ", "=", ">", " ", "a", "'", "c">>
LineBadOp == <<"X", " ", "I", "n", "v", "a", "l", "i", "d", "L", "i", "n", "e">>
LineBlank == <<" ", " ">>
LineKinds == {LineAdd, LineRem, LineBadOp, LineBlank}
Docs == UNION {[1..n -> LineKinds] : n \in 0..MaxLines}

AnsY == <<"y", "\n">>
AnsYes == <<" ", "Y", "E", "S", " ", "\n">>
AnsNo == <<"n", "\n">>
\* the input ends before a line break: ReadString returns what it read and an error
AnsEOF == <<>>
AnsYAtEOF == <<"y">>
Answers == {AnsY, AnsYes, AnsNo, AnsEOF, AnsYAtEOF}

TableT == <<"T">>
InitialRows == <<[table |-> TableT, cols |-> <<<<"a", "'", "c">>>>]>>
QueryTexts == {SelectAllSQL(TableT), buildSQL("-", TableT, <<<<"a">>>>)}
Ops == {"ApplyTransform", "CompareMSI", "ReadTableRows", "QueryMSI"}

NoSession == [state |-> "none", mode |-> 0, localCOM |-> FALSE]
NoResult == [status |-> "none", kind |-> "", stmt |-> 0, transient |-> FALSE]

VARIABLES
    op, doc, fileState, dryRun, interactive, sqlQuery, comInitialized,
    pc, trace, result,
    lines, queries, idx, warnings,
    sess, oa, opens, closes, openAttempts, comBalance,
    dbWork, dbSaved, commits,
    done, doneCloses, spinner,
    eqStack, eqPc, eqRet, eqTrans, eqRows,
    cur, method, bi, found,
    outer, fErr,
    call, ret, rt, loc,
    api,
    answered

inputs == <<op, doc, fileState, dryRun, interactive, sqlQuery, comInitialized>>
applyVars == <<lines, queries, idx, warnings>>
sessVars == <<sess, oa, opens, closes, openAttempts, comBalance>>
dbVars == <<dbWork, dbSaved, commits>>
spinVars == <<done, doneCloses, spinner>>
eqVars == <<eqStack, eqPc, eqRet, eqTrans, eqRows>>
discVars == <<cur, method, bi, found>>
retryVars == <<outer, fErr>>
\* one direct call of a library function: its arguments, its result, and the
\* position and counters of SafeExecuteWithRetry's loop
libVars == <<call, ret, rt, loc, api>>
vars == <<inputs, pc, trace, result, applyVars, sessVars, dbVars, spinVars, eqVars,
          discVars, retryVars, libVars, answered>>

\* the line the operator typed at the latest prompt
NoAnswer == [given |-> FALSE, text |-> <<>>]

NoCall == [fn |-> "none"]
NoRet == [state |-> "none"]
NoWait == [wrapped |-> FALSE, shift |-> 0, jitterMs |-> 0]
NoError == [nil |-> TRUE, text |-> <<>>, cause |-> <<>>]
RtIdle == [pc |-> "off", attempt |-> 0, calls |-> 0, sleeps |-> 0, hist |-> <<>>,
           wait |-> NoWait, lastErr |-> NoError]
\* the locals of a call that runs in several steps
NoLocals == [pc |-> "off"]

\* package core as its callers find it: the COM reference count of
\* msi_session.go:88-93, the calls made on the COM runtime and on the handles
\* of the one session the callers share, and the latest call's answer
ApiNoSession == [state |-> "none", mode |-> 0, localCOM |-> FALSE,
                 dbDispatch |-> FALSE, installer |-> FALSE]
ApiNoCall == [fn |-> "none", err |-> "nil"]
ApiStart == [comInitCount |-> 0, comInitialized |-> FALSE,
             coInits |-> 0, coUninits |-> 0,
             sessInits |-> 0, openUninits |-> 0, closeUninits |-> 0,
             closeCalls |-> 0, dbReleases |-> 0, instReleases |-> 0,
             dbCalls |-> 0, dbCommits |-> 0,
             calls |-> 0, s |-> ApiNoSession, last |-> ApiNoCall]

LibIdle == call = NoCall /\ ret = NoRet /\ rt = RtIdle /\ loc = NoLocals /\ api = ApiStart

StartPc(o) ==
    CASE o = "ApplyTransform" -> "at_load"
      [] o = "CompareMSI" -> "cm_open1"
      [] OTHER -> "rq_open"

Init ==
    /\ op \in Ops
    /\ dryRun \in BOOLEAN
    /\ interactive \in BOOLEAN
    /\ comInitialized \in BOOLEAN
    /\ \/ fileState = "ok" /\ doc \in Docs
       \/ fileState \in {"missing", "unreadable"} /\ doc = <<>>
    /\ sqlQuery \in QueryTexts
    /\ (op # "ApplyTransform" =>
            doc = <<>> /\ fileState = "ok" /\ ~dryRun /\ ~interactive)
    /\ (op # "QueryMSI" => sqlQuery = SelectAllSQL(TableT))
    /\ pc = StartPc(op)
    /\ trace = <<>>
    /\ result = NoResult
    /\ lines = <<>> /\ queries = <<>> /\ idx = 0 /\ warnings = 0
    /\ sess = [s \in 1..2 |-> NoSession]
    /\ oa = 1 /\ opens = 0 /\ closes = 0 /\ openAttempts = 0
    /\ comBalance = IF comInitialized THEN 1 ELSE 0
    /\ dbWork = InitialRows /\ dbSaved = InitialRows /\ commits = 0
    /\ done = "none" /\ doneCloses = 0 /\ spinner = "none"
    /\ eqStack = <<>> /\ eqPc = "idle" /\ eqRet = "none" /\ eqTrans = FALSE /\ eqRows = 0
    /\ cur = 1 /\ method = 1 /\ bi = 1 /\ found = FALSE
    /\ outer = 1 /\ fErr = NoResult
    /\ answered = NoAnswer
    /\ LibIdle

Err(kind, k, tr) == [status |-> "err", kind |-> kind, stmt |-> k, transient |-> tr]
Ok == [status |-> "ok", kind |-> "", stmt |-> 0, transient |-> FALSE]

(***************************************************************************)
(* The retry layer and the session.                                        *)
(***************************************************************************)
\* SafeExecuteWithRetry: after a failed attempt, sleep and go round again?
ShouldRetryAnyError(transient, attempt, maxRetries) == attempt < maxRetries
ShouldRetry(transient, attempt, maxRetries) == transient /\ attempt < maxRetries

OpenPcs == {"at_open", "cm_open1", "cm_open2", "rq_open"}
OpenOutcomes == {"ok", "coinit", "create", "qi", "opendb", "nildb"}
OpenMode == IF op = "ApplyTransform" THEN 1 ELSE 0
OpenSlot == IF pc = "cm_open2" THEN 2 ELSE 1

OpenOkPc ==
    CASE pc = "at_open" -> "at_build"
      [] pc = "cm_open1" -> "cm_open2"
      [] pc = "cm_open2" -> "cm_disc"
      [] OTHER -> "rq_query"

OpenFailPc ==
    CASE pc = "cm_open2" -> "cm_ret"
      [] pc = "rq_open" -> "rq_ret"
      [] OTHER -> "done"

\* CoInitialize calls of one attempt that the attempt does not undo itself.
\* A session that opens keeps its initialisation until Close. When the
\* database opens to a nil handle the closure returns a fresh error, its own
\* err variable is still nil, and the deferred release does not run.
ComKept(out, localCOM) ==
    IF localCOM /\ out \in {"ok", "nildb"} THEN 1 ELSE 0

\* One attempt of the closure OpenMsiSession hands to SafeExecuteWithRetry,
\* and the retry decision that follows it.
OpenAttempt(out, tr) ==
    /\ pc \in OpenPcs
    /\ (out = "coinit" => ~comInitialized)
    /\ (out \in {"ok", "nildb"} => ~tr)
    /\ openAttempts' = openAttempts + 1
    /\ comBalance' = comBalance + ComKept(out, ~comInitialized)
    /\ IF out = "ok"
       THEN /\ sess' = [sess EXCEPT ![OpenSlot] =
                           [state |-> "open", mode |-> OpenMode,
                            localCOM |-> ~comInitialized]]
            /\ opens' = opens + 1
            /\ oa' = 1
            /\ pc' = OpenOkPc
            /\ UNCHANGED <<result, fErr>>
       ELSE IF ShouldRetry(tr, oa, OpenMaxRetries)
       THEN /\ oa' = oa + 1
            /\ UNCHANGED <<sess, opens, pc, result, fErr>>
       ELSE /\ oa' = 1
            /\ pc' = OpenFailPc
            /\ UNCHANGED <<sess, opens>>
            /\ IF op \in {"ReadTableRows", "QueryMSI"}
               THEN fErr' = Err("open", 0, tr) /\ UNCHANGED result
               ELSE result' = Err("open", 0, tr) /\ UNCHANGED fErr
    /\ UNCHANGED <<inputs, libVars, answered, trace, applyVars, closes, dbVars, spinVars, eqVars,
                   discVars, outer>>

\* MsiSession.Close
CloseNothing(s) == s
Close(s) == IF s.state = "open" THEN [s EXCEPT !.state = "closed"] ELSE s

OpenSessions(ss) == {i \in DOMAIN ss : ss[i].state = "open"}

\* The deferred session.Close() calls of a returning operation.
DeferredClose ==
    /\ sess' = [i \in DOMAIN sess |-> Close(sess[i])]
    /\ closes' = closes + Cardinality({i \in DOMAIN sess : sess'[i] # sess[i]})
    /\ comBalance' = comBalance
                       - Cardinality({i \in DOMAIN sess :
                                        sess'[i] # sess[i] /\ sess[i].localCOM})
    /\ dbWork' = dbSaved
    /\ UNCHANGED <<oa, opens, openAttempts, dbSaved, commits>>

(***************************************************************************)
(* ApplyTransform.                                                         *)
(***************************************************************************)
\* the head of the statement loop, about to take statement k of n
LoopPcShort(k, n) ==
    IF k >= n THEN "at_endloop"
    ELSE IF interactive THEN "at_prompt" ELSE "at_run"
LoopPc(k, n) ==
    IF k > n THEN "at_endloop"
    ELSE IF interactive THEN "at_prompt" ELSE "at_run"

\* continue: the range loop moves to the statement after k
NextStmtSkipping(k) == k + 2
NextStmt(k) == k + 1

\* a failed ExecuteQuery: close(done) and return the error
AfterFailurePcContinue(k, n) == LoopPc(k + 1, n)
AfterFailurePc(k, n) == "at_ret"

\* len(lines) == 0
NoDiffLinesNever(ls) == FALSE
NoDiffLines(ls) == ls = <<>>

\* Load with the read error of loadDiffLines not returned
LoadIgnoringReadError ==
    /\ pc = "at_load"
    /\ IF fileState # "ok"
       THEN /\ pc' = "at_open"
            /\ UNCHANGED <<lines, result>>
       ELSE /\ lines' = loadDiffLines(doc)
            /\ IF NoDiffLines(lines')
               THEN result' = Err("nolines", 0, FALSE) /\ pc' = "done"
               ELSE pc' = "at_open" /\ UNCHANGED result
    /\ UNCHANGED <<inputs, libVars, answered, trace, queries, idx, warnings, sessVars, dbVars, spinVars,
                   eqVars, discVars, retryVars>>

\* loadDiffLines and the empty-document check
Load ==
    /\ pc = "at_load"
    /\ IF fileState # "ok"
       THEN /\ result' = Err("input", 0, FALSE)
            /\ pc' = "done"
            /\ UNCHANGED lines
       ELSE /\ lines' = loadDiffLines(doc)
            /\ IF NoDiffLines(lines')
               THEN result' = Err("nolines", 0, FALSE) /\ pc' = "done"
               ELSE pc' = "at_open" /\ UNCHANGED result
    /\ UNCHANGED <<inputs, libVars, answered, trace, queries, idx, warnings, sessVars, dbVars, spinVars,
                   eqVars, discVars, retryVars>>

\* the statement-building loop, the zero-statements check, the spinner start
Build ==
    /\ pc = "at_build"
    /\ queries' = BuildQueries(lines, 1)
    /\ warnings' = BuildWarnings(lines)
    /\ IF queries' = <<>>
       THEN /\ result' = Err("noqueries", 0, FALSE)
            /\ pc' = "at_ret"
            /\ UNCHANGED <<idx, spinVars>>
       ELSE /\ done' = "open"
            /\ spinner' = "poll"
            /\ idx' = 1
            /\ pc' = LoopPc(1, Len(queries'))
            /\ UNCHANGED <<result, doneCloses>>
    /\ UNCHANGED <<inputs, libVars, answered, trace, lines, sessVars, dbVars, eqVars, discVars, retryVars>>

\* interactive: confirmQuery on the current statement
Prompt(answer) ==
    /\ pc = "at_prompt"
    /\ answered' = [given |-> TRUE, text |-> answer]
    /\ IF confirmQuery(answer)
       THEN /\ trace' = Append(trace, <<"confirmed", idx>>)
            /\ pc' = "at_run"
            /\ UNCHANGED idx
       ELSE /\ trace' = Append(trace, <<"skipped", idx>>)
            /\ idx' = NextStmt(idx)
            /\ pc' = LoopPc(idx', Len(queries))
    /\ UNCHANGED <<inputs, libVars, result, lines, queries, warnings, sessVars, dbVars, spinVars,
                   eqVars, discVars, retryVars>>

\* dry-run: the statement is logged
Simulate ==
    /\ pc = "at_run"
    /\ dryRun
    /\ trace' = Append(trace, <<"simulated", idx>>)
    /\ idx' = NextStmt(idx)
    /\ pc' = LoopPc(idx', Len(queries))
    /\ UNCHANGED <<inputs, libVars, answered, result, lines, queries, warnings, sessVars, dbVars, spinVars,
                   eqVars, discVars, retryVars>>

\* session.ExecuteQuery(q) is entered
ExecBegin ==
    /\ pc = "at_run"
    /\ trace' = Append(trace, <<"begin", idx>>)
    /\ eqStack' = <<queries[idx].sql>>
    /\ eqPc' = "openView"
    /\ pc' = "at_exec"
    /\ UNCHANGED <<inputs, libVars, answered, result, applyVars, sessVars, dbVars, spinVars, eqRet, eqTrans,
                   eqRows, discVars, retryVars>>

\* not a dry run: the statement goes to the database
ExecStartAlways == ExecBegin
ExecStart == ~dryRun /\ ExecBegin

EqReturned == Len(eqStack) = 1 /\ eqPc = "ret"

EqReset ==
    /\ eqStack' = <<>>
    /\ eqPc' = "idle"
    /\ eqRet' = "none"
    /\ eqTrans' = FALSE
    /\ eqRows' = 0

\* session.ExecuteQuery(q) has returned, or panicked, in the statement loop
ExecDone ==
    /\ pc = "at_exec"
    /\ EqReturned
    /\ EqReset
    /\ IF eqRet = "ok"
       THEN /\ trace' = Append(trace, <<"executed", idx>>)
            /\ idx' = NextStmt(idx)
            /\ pc' = LoopPc(idx', Len(queries))
            /\ UNCHANGED <<result, spinVars>>
       ELSE IF eqRet = "err"
       THEN /\ trace' = Append(trace, <<"failed", idx>>)
            /\ done' = "closed"
            /\ doneCloses' = doneCloses + 1
            /\ result' = Err("exec", idx, eqTrans)
            /\ pc' = AfterFailurePc(idx, Len(queries))
            /\ UNCHANGED <<idx, spinner>>
       ELSE /\ trace' = Append(trace, <<"panicked", idx>>)
            /\ result' = Err("panic", idx, eqTrans)
            /\ pc' = "at_ret"
            /\ UNCHANGED <<idx, spinVars>>
    /\ UNCHANGED <<inputs, libVars, answered, lines, queries, warnings, sessVars, dbVars, discVars, retryVars>>

\* a loop end that commits only when some statement went to the database
EndLoopCommittingWork ==
    /\ pc = "at_endloop"
    /\ done' = "closed"
    /\ doneCloses' = doneCloses + 1
    /\ IF dryRun \/ \A p \in DOMAIN trace : trace[p][1] # "begin"
       THEN result' = Ok /\ pc' = "at_ret"
       ELSE pc' = "at_commit" /\ UNCHANGED result
    /\ UNCHANGED <<inputs, libVars, answered, trace, applyVars, sessVars, dbVars, spinner, eqVars,
                   discVars, retryVars>>

\* a loop end that waits for the spinner to exit before it closes done
EndLoopAfterSpinner ==
    /\ pc = "at_endloop"
    /\ spinner = "exited"
    /\ done' = "closed"
    /\ doneCloses' = doneCloses + 1
    /\ IF dryRun
       THEN result' = Ok /\ pc' = "at_ret"
       ELSE pc' = "at_commit" /\ UNCHANGED result
    /\ UNCHANGED <<inputs, libVars, answered, trace, applyVars, sessVars, dbVars, spinner, eqVars,
                   discVars, retryVars>>

\* the statement loop is over: close(done)
EndLoop ==
    /\ pc = "at_endloop"
    /\ done' = "closed"
    /\ doneCloses' = doneCloses + 1
    /\ IF dryRun
       THEN result' = Ok /\ pc' = "at_ret"
       ELSE pc' = "at_commit" /\ UNCHANGED result
    /\ UNCHANGED <<inputs, libVars, answered, trace, applyVars, sessVars, dbVars, spinner, eqVars,
                   discVars, retryVars>>

\* Commit with its failure dropped by the caller
CommitSwallowingError(out, tr) ==
    /\ pc = "at_commit"
    /\ out \in {"ok", "err"}
    /\ (out = "ok" => ~tr)
    /\ pc' = "at_ret"
    /\ IF sess[1].state # "open"
       THEN /\ result' = Err("closed", 0, FALSE)
            /\ UNCHANGED <<trace, dbVars>>
       ELSE IF sess[1].mode # 1
       THEN /\ result' = Err("readonly", 0, FALSE)
            /\ UNCHANGED <<trace, dbVars>>
       ELSE /\ commits' = commits + 1
            /\ trace' = Append(trace, IF out = "ok" THEN <<"commit", 0>>
                                       ELSE <<"commit", 0, "failed">>)
            /\ IF out = "ok"
               THEN dbSaved' = dbWork /\ result' = Ok
               ELSE result' = Ok /\ UNCHANGED dbSaved
            /\ UNCHANGED dbWork
    /\ UNCHANGED <<inputs, libVars, answered, applyVars, sessVars, spinVars, eqVars, discVars, retryVars>>

\* MsiSession.Commit
Commit(out, tr) ==
    /\ pc = "at_commit"
    /\ out \in {"ok", "err"}
    /\ (out = "ok" => ~tr)
    /\ pc' = "at_ret"
    /\ IF sess[1].state # "open"
       THEN /\ result' = Err("closed", 0, FALSE)
            /\ UNCHANGED <<trace, dbVars>>
       ELSE IF sess[1].mode # 1
       THEN /\ result' = Err("readonly", 0, FALSE)
            /\ UNCHANGED <<trace, dbVars>>
       ELSE /\ commits' = commits + 1
            /\ trace' = Append(trace, IF out = "ok" THEN <<"commit", 0>>
                                       ELSE <<"commit", 0, "failed">>)
            /\ IF out = "ok"
               THEN dbSaved' = dbWork /\ result' = Ok
               ELSE result' = Err("commit", 0, tr) /\ UNCHANGED dbSaved
            /\ UNCHANGED dbWork
    /\ UNCHANGED <<inputs, libVars, answered, applyVars, sessVars, spinVars, eqVars, discVars, retryVars>>

\* the closure returns: the deferred session.Close(), then SafeExecute's wrap
Return ==
    /\ pc = "at_ret"
    /\ DeferredClose
    /\ pc' = "done"
    /\ UNCHANGED <<inputs, libVars, answered, trace, result, applyVars, spinVars, eqVars, discVars,
                   retryVars>>

(***************************************************************************)
(* retro.ShowSpinner, the task ApplyTransform starts.                      *)
(***************************************************************************)
\* select: done is closed
SpinnerExit ==
    /\ spinner = "poll"
    /\ done = "closed"
    /\ spinner' = "exited"
    /\ UNCHANGED <<inputs, libVars, answered, pc, trace, result, applyVars, sessVars, dbVars, done,
                   doneCloses, eqVars, discVars, retryVars>>

\* the default case also clearing the applier's count of warnings
SpinnerDrawClearingWarnings ==
    /\ spinner = "poll"
    /\ done # "closed"
    /\ spinner' = "sleep"
    /\ warnings' = 0
    /\ UNCHANGED <<inputs, libVars, answered, pc, trace, result, lines, queries, idx, sessVars,
                   dbVars, done, doneCloses, eqVars, discVars, retryVars>>

\* select: default, print the frame and go to sleep
SpinnerDraw ==
    /\ spinner = "poll"
    /\ done # "closed"
    /\ spinner' = "sleep"
    /\ UNCHANGED <<inputs, libVars, answered, pc, trace, result, applyVars, sessVars, dbVars, done,
                   doneCloses, eqVars, discVars, retryVars>>

\* the sleep is over (the frame counter i++ only picks the glyph drawn next)
SpinnerWake ==
    /\ spinner = "sleep"
    /\ spinner' = "poll"
    /\ UNCHANGED <<inputs, libVars, answered, pc, trace, result, applyVars, sessVars, dbVars, done,
                   doneCloses, eqVars, discVars, retryVars>>

(***************************************************************************)
(* MsiSession.ExecuteQuery and getColumnCount.  eqStack holds the SQL text *)
(* of every ExecuteQuery call in progress, the innermost last: a call      *)
(* below the first is the _Columns count query that getColumnCount issues  *)
(* for its caller.                                                         *)
(***************************************************************************)
EqTop == eqStack[Len(eqStack)]

\* Execute of the view changes rows only for a statement of the transform.
EqEffect ==
    IF pc = "at_exec" /\ Len(eqStack) = 1
    THEN /\ dbWork' = DbExecute(dbWork, queries[idx].rec)
         /\ trace' = Append(trace, <<"dbexec", idx>>)
    ELSE UNCHANGED <<dbWork, trace>>

EqFail(kind, tr) ==
    /\ eqPc' = "ret"
    /\ eqRet' = kind
    /\ eqTrans' = tr
    /\ eqRows' = 0

\* the closed check and openView(sql)
EqOpenView(out, tr) ==
    /\ eqPc = "openView"
    /\ out \in {"ok", "err"}
    /\ (out = "ok" => ~tr)
    /\ IF sess[cur].state # "open"
       THEN EqFail("err", FALSE)
       ELSE IF out = "ok"
       THEN eqPc' = "colCount" /\ UNCHANGED <<eqRet, eqTrans, eqRows>>
       ELSE EqFail("err", tr)
    /\ UNCHANGED <<inputs, libVars, answered, pc, trace, result, applyVars, sessVars, dbVars, spinVars,
                   eqStack, discVars, retryVars>>

\* getColumnCount: in read-only mode, with a table name, ask _Columns first
EqColCount ==
    /\ eqPc = "colCount"
    /\ LET tableName == extractTableName(EqTop)
       IN  IF tableName # <<>> /\ sess[cur].mode = 0
           THEN /\ Len(eqStack) < MaxDepth
                /\ eqStack' = Append(eqStack, CountSQL(tableName))
                /\ eqPc' = "openView"
           ELSE /\ eqPc' = "fallback"
                /\ UNCHANGED eqStack
    /\ UNCHANGED <<inputs, libVars, answered, pc, trace, result, applyVars, sessVars, dbVars, spinVars,
                   eqRet, eqTrans, eqRows, discVars, retryVars>>

\* the count query returns into getColumnCount (a panic of it is recovered by
\* getColumnCount's SafeExecute and fails the caller)
EqCountReturn(countOK) ==
    /\ eqPc = "ret"
    /\ Len(eqStack) >= 2
    /\ (countOK => eqRet = "ok" /\ eqRows > 0)
    /\ eqStack' = SubSeq(eqStack, 1, Len(eqStack) - 1)
    /\ IF eqRet = "panic"
       THEN EqFail("err", eqTrans)
       ELSE /\ eqPc' = IF countOK THEN "execute" ELSE "fallback"
            /\ eqRet' = "none"
            /\ eqTrans' = FALSE
            /\ eqRows' = 0
    /\ UNCHANGED <<inputs, libVars, answered, pc, trace, result, applyVars, sessVars, dbVars, spinVars,
                   discVars, retryVars>>

\* getColumnCount without _Columns: a second view of the same statement is
\* opened, executed and fetched from
EqFallback(out, tr) ==
    /\ eqPc = "fallback"
    /\ out \in {"ok", "openErr", "execErr", "fetchErr"}
    /\ (out = "ok" => ~tr)
    /\ IF out \in {"ok", "fetchErr"} THEN EqEffect ELSE UNCHANGED <<dbWork, trace>>
    /\ IF out = "ok"
       THEN eqPc' = "execute" /\ UNCHANGED <<eqRet, eqTrans, eqRows>>
       ELSE EqFail("err", tr)
    /\ UNCHANGED <<inputs, libVars, answered, pc, result, applyVars, sessVars, dbSaved, commits, spinVars,
                   eqStack, discVars, retryVars>>

\* Execute on the view, then the Fetch loop
EqExecute(out, tr, n) ==
    /\ eqPc = "execute"
    /\ out \in {"ok", "err", "panic", "panicFetch"}
    /\ (out = "ok" => ~tr)
    /\ (out # "ok" => n = 0)
    /\ IF out \in {"ok", "panicFetch"} THEN EqEffect ELSE UNCHANGED <<dbWork, trace>>
    /\ eqPc' = "ret"
    /\ eqRet' = CASE out = "ok" -> "ok" [] out = "err" -> "err" [] OTHER -> "panic"
    /\ eqTrans' = tr
    /\ eqRows' = n
    /\ UNCHANGED <<inputs, libVars, answered, pc, result, applyVars, sessVars, dbSaved, commits, spinVars,
                   eqStack, discVars, retryVars>>

(***************************************************************************)
(* CompareMSI and discoverTables.                                          *)
(***************************************************************************)
DiscSQL ==
    CASE method = 1 -> SelectAllSQL(TablesName)
      [] method = 2 -> DistinctSQL
      [] OTHER -> SelectAllSQL(CommonTables[bi])

\* a discovery method issues its query on the session being listed
DiscStart ==
    /\ pc = "cm_disc"
    /\ eqStack' = <<DiscSQL>>
    /\ eqPc' = "openView"
    /\ pc' = "cm_wait"
    /\ UNCHANGED <<inputs, libVars, answered, trace, result, applyVars, sessVars, dbVars, spinVars, eqRet,
                   eqTrans, eqRows, discVars, retryVars>>

\* discoverTables has listed the tables of session cur
DiscSucceeded ==
    IF cur = 1
    THEN /\ cur' = 2
         /\ method' = 1
         /\ bi' = 1
         /\ found' = FALSE
         /\ pc' = "cm_disc"
         /\ UNCHANGED result
    ELSE /\ result' = Ok
         /\ pc' = "cm_ret"
         /\ UNCHANGED discVars

\* the query of a discovery method has returned; named: extractFirstColumn
\* keeps at least one of the names fetched
DiscDone(named) ==
    /\ pc = "cm_wait"
    /\ EqReturned
    /\ EqReset
    /\ (named => eqRet = "ok" /\ eqRows > 0 /\ method < 3)
    /\ IF eqRet = "panic"
       THEN /\ result' = Err("panic", 0, eqTrans)
            /\ pc' = "cm_ret"
            /\ UNCHANGED discVars
       ELSE IF method < 3
       THEN IF named
            THEN DiscSucceeded
            ELSE /\ method' = method + 1
                 /\ bi' = 1
                 /\ found' = FALSE
                 /\ pc' = "cm_disc"
                 /\ UNCHANGED <<cur, result>>
       ELSE LET hit == found \/ (eqRet = "ok" /\ eqRows > 0)
            IN  IF bi < Len(CommonTables)
                THEN /\ bi' = bi + 1
                     /\ found' = hit
                     /\ pc' = "cm_disc"
                     /\ UNCHANGED <<cur, method, result>>
                ELSE IF hit
                THEN DiscSucceeded
                ELSE /\ result' = Err("discover", 0, FALSE)
                     /\ pc' = "cm_ret"
                     /\ UNCHANGED discVars
    /\ UNCHANGED <<inputs, libVars, answered, trace, applyVars, sessVars, dbVars, spinVars, retryVars>>

\* CompareMSI's closure returns: both deferred Close calls
CompareReturn ==
    /\ pc = "cm_ret"
    /\ DeferredClose
    /\ pc' = "done"
    /\ UNCHANGED <<inputs, libVars, answered, trace, result, applyVars, spinVars, eqVars, discVars,
                   retryVars>>

(***************************************************************************)
(* ReadTableRows and QueryMSI: SafeExecuteWithRetry around open, query,    *)
(* deferred Close.                                                         *)
(***************************************************************************)
RqStart ==
    /\ pc = "rq_query"
    /\ eqStack' = <<sqlQuery>>
    /\ eqPc' = "openView"
    /\ pc' = "rq_wait"
    /\ UNCHANGED <<inputs, libVars, answered, trace, result, applyVars, sessVars, dbVars, spinVars, eqRet,
                   eqTrans, eqRows, discVars, retryVars>>

\* the query has returned; QueryMSI goes on to GetColumnNames when it has rows
RqDone ==
    /\ pc = "rq_wait"
    /\ EqReturned
    /\ IF eqRet # "ok"
       THEN /\ EqReset
            /\ fErr' = Err(IF eqRet = "panic" THEN "panic" ELSE "query", 0, eqTrans)
            /\ pc' = "rq_ret"
       ELSE IF op = "QueryMSI" /\ eqRows > 0 /\ extractTableName(sqlQuery) # <<>>
       THEN /\ eqStack' = <<ColumnsSQL(extractTableName(sqlQuery))>>
            /\ eqPc' = "openView"
            /\ eqRet' = "none"
            /\ eqTrans' = FALSE
            /\ eqRows' = 0
            /\ pc' = "rq_cols"
            /\ UNCHANGED fErr
       ELSE /\ EqReset
            /\ fErr' = NoResult
            /\ pc' = "rq_ret"
    /\ UNCHANGED <<inputs, libVars, answered, trace, result, applyVars, sessVars, dbVars, spinVars,
                   discVars, outer>>

\* GetColumnNames has returned: its error is dropped, its panic is not
RqColsDone ==
    /\ pc = "rq_cols"
    /\ EqReturned
    /\ EqReset
    /\ fErr' = IF eqRet = "panic" THEN Err("panic", 0, eqTrans) ELSE NoResult
    /\ pc' = "rq_ret"
    /\ UNCHANGED <<inputs, libVars, answered, trace, result, applyVars, sessVars, dbVars, spinVars,
                   discVars, outer>>

\* one attempt of the closure returns (deferred Close), then the retry decision
RqReturn ==
    /\ pc = "rq_ret"
    /\ DeferredClose
    /\ IF fErr.status # "err"
       THEN result' = Ok /\ pc' = "done" /\ UNCHANGED retryVars
       ELSE IF ShouldRetry(fErr.transient, outer, OuterMaxRetries)
       THEN /\ outer' = outer + 1
            /\ fErr' = NoResult
            /\ pc' = "rq_open"
            /\ UNCHANGED result
       ELSE /\ result' = fErr
            /\ pc' = "done"
            /\ UNCHANGED retryVars
    /\ UNCHANGED <<inputs, libVars, answered, trace, applyVars, spinVars, eqVars, discVars>>

(***************************************************************************)
(* The specification.                                                      *)
(***************************************************************************)
Next ==
    \/ Load
    \/ \E out \in OpenOutcomes, tr \in BOOLEAN : OpenAttempt(out, tr)
    \/ Build
    \/ \E answer \in Answers : Prompt(answer)
    \/ Simulate
    \/ ExecStart
    \/ ExecDone
    \/ EndLoop
    \/ \E out \in {"ok", "err"}, tr \in BOOLEAN : Commit(out, tr)
    \/ Return
    \/ SpinnerExit
    \/ SpinnerDraw
    \/ SpinnerWake
    \/ \E out \in {"ok", "err"}, tr \in BOOLEAN : EqOpenView(out, tr)
    \/ EqColCount
    \/ \E countOK \in BOOLEAN : EqCountReturn(countOK)
    \/ \E out \in {"ok", "openErr", "execErr", "fetchErr"}, tr \in BOOLEAN :
          EqFallback(out, tr)
    \/ \E out \in {"ok", "err", "panic", "panicFetch"}, tr \in BOOLEAN, n \in 0..MaxRows :
          EqExecute(out, tr, n)
    \/ DiscStart
    \/ \E named \in BOOLEAN : DiscDone(named)
    \/ CompareReturn
    \/ RqStart
    \/ RqDone
    \/ RqColsDone
    \/ RqReturn

Spec == Init /\ [][Next]_vars

(***************************************************************************)
(* ApplyTransform alone, with its task scheduled fairly: the applier is one *)
(* goroutine, each of its steps is a prompt that gets its answer, a call    *)
(* that returns, or plain code, and the runtime keeps running a runnable    *)
(* goroutine.  Nothing is assumed of the spinner.  The applier's steps are  *)
(* Build and ApplierRest, never enabled together; Build is enabled exactly  *)
(* at its place in the code, so its weak fairness is written with           *)
(* ENABLED <<Build>>_vars spelled out as BuildEnabled.                      *)
(***************************************************************************)
ApplyInit == Init /\ op = "ApplyTransform"

BuildEnabled == pc = "at_build"

ApplierRest ==
    \/ Load
    \/ \E out \in OpenOutcomes, tr \in BOOLEAN : OpenAttempt(out, tr)
    \/ \E answer \in Answers : Prompt(answer)
    \/ Simulate
    \/ ExecStart
    \/ ExecDone
    \/ EndLoop
    \/ \E out \in {"ok", "err"}, tr \in BOOLEAN : Commit(out, tr)
    \/ Return
    \/ \E out \in {"ok", "err"}, tr \in BOOLEAN : EqOpenView(out, tr)
    \/ EqColCount
    \/ \E out \in {"ok", "openErr", "execErr", "fetchErr"}, tr \in BOOLEAN :
          EqFallback(out, tr)
    \/ \E out \in {"ok", "err", "panic", "panicFetch"}, tr \in BOOLEAN, n \in 0..MaxRows :
          EqExecute(out, tr, n)

ApplyNext ==
    \/ Build
    \/ ApplierRest
    \/ SpinnerExit
    \/ SpinnerDraw
    \/ SpinnerWake

ApplySpec ==
    /\ ApplyInit /\ [][ApplyNext]_vars
    /\ WF_vars(ApplierRest)
    /\ ([]<>~BuildEnabled \/ []<><<Build>>_vars)

(***************************************************************************)
(* The error layer called directly (core/error_handler.go): SafeExecute,   *)
(* isTransientError, backoffDuration and the loop of SafeExecuteWithRetry. *)
(* An error is its message; cause is the message of the error it wraps     *)
(* with %w, empty when it wraps none.                                      *)
(***************************************************************************)
MaxRetriesArg == 3
MaxAttempt == 36
MaxLineLen == 4
MaxValueLen == 3
MaxSnapshot == 2
MaxValues == 2
MaxRowNum == 2

transientErrors ==
    <<<<"R", "P", "C", "_", "E", "_", "S", "E", "R", "V", "E", "R", "F", "A", "U", "L", "T">>,
      <<"R", "P", "C", "_", "E", "_", "D", "I", "S", "C", "O", "N", "N", "E", "C", "T", "E", "D">>,
      <<"R", "P", "C", "_", "S", "_", "C", "A", "L", "L", "_", "F", "A", "I", "L", "E", "D">>,
      <<"R", "P", "C", "_", "E", "_", "C", "A", "L", "L", "_", "R", "E", "J", "E", "C", "T", "E", "D">>,
      <<"C", "O", "_", "E", "_", "S", "E", "R", "V", "E", "R", "_", "E", "X", "E", "C", "_", "F", "A", "I", "L", "U", "R", "E">>>>

\* strings.Contains
Contains(s, pat) == IndexOf(s, pat) # 0

NilError == NoError
ErrorOf(text, cause) == [nil |-> FALSE, text |-> text, cause |-> cause]

ColonSep == <<":", " ">>
PanicSep == <<":", " ", "p", "a", "n", "i", "c", ":", " ">>
FailedAfter == <<":", " ", "f", "a", "i", "l", "e", "d", " ", "a", "f", "t", "e", "r", " ">>
AttemptsSep == <<" ", "a", "t", "t", "e", "m", "p", "t", "s", ":", " ">>
InvalidMaxRetries == <<":", " ", "i", "n", "v", "a", "l", "i", "d", " ", "m", "a", "x", "R", "e", "t", "r", "i", "e", "s", ":", " ">>

\* %d of an int
FormatInt(n) == IF n < 0 THEN <<"-">> \o Itoa(0 - n) ELSE Itoa(n)

\* What one invocation of f does: return nil, return an error, or panic.
FnNil == [kind |-> "nil", msg |-> <<>>]
MsgPlain == <<"d", "e", "n", "i", "e", "d">>
MsgToken == <<"h", "r", " ", "R", "P", "C", "_", "E", "_", "S", "E", "R", "V", "E", "R", "F", "A", "U", "L", "T">>
MsgTokenLower == <<"r", "p", "c", "_", "s", "_", "c", "a", "l", "l", "_", "f", "a", "i", "l", "e", "d">>
MsgTokenCut == <<"R", "P", "C", "_", "E", "_", "S", "E", "R", "V", "E", "R">>
FnMessages == {MsgPlain, MsgToken, MsgTokenLower, MsgTokenCut}
FnOutcomes ==
    {FnNil} \cup {[kind |-> k, msg |-> m] : k \in {"err", "panic"}, m \in FnMessages}

OpPlain == <<"O", "p">>
OpToken == <<"c", "o", "_", "e", "_", "s", "e", "r", "v", "e", "r", "_", "e", "x", "e", "c", "_", "f", "a", "i", "l", "u", "r", "e">>
OpNames == {OpPlain, OpToken}

\* SafeExecute whose deferred function leaves err alone after a panic
SafeExecuteSwallowing(operation, out) ==
    IF out.kind = "err"
    THEN ErrorOf(operation \o ColonSep \o out.msg, out.msg)
    ELSE NilError

\* SafeExecute(operation, f), f's single invocation doing out
SafeExecute(operation, out) ==
    IF out.kind = "panic"
    THEN ErrorOf(operation \o PanicSep \o out.msg, <<>>)
    ELSE IF out.kind = "err"
    THEN ErrorOf(operation \o ColonSep \o out.msg, out.msg)
    ELSE NilError

isTransientErrorNever(err) == FALSE
isTransientError(err) ==
    /\ ~err.nil
    /\ \E i \in DOMAIN transientErrors : Contains(ToUpper(err.text), transientErrors[i])

\* randSource.Intn(JitterBound), in milliseconds
JitterBound == 200
Jitters == 0..(JitterBound - 1)
\* the least and the greatest of them, for the sleeps of the retry loop
JitterEdges == {0, JitterBound - 1}

\* time.Second is 10^9 ns, a number of SecondBits bits (2^29 < 10^9 < 2^30),
\* and a Duration is an int64 with DurationBits value bits: time.Second << k
\* has SecondBits + k bits and keeps its value exactly while they fit.
SecondBits == 30
DurationBits == 63
ShlFits(k) == SecondBits + k <= DurationBits

\* backoffDuration without the floor on the attempt number
backoffDurationUnfloored(attempt, jitter) ==
    [wrapped |-> ~ShlFits(attempt - 1), shift |-> attempt - 1, jitterMs |-> jitter]

\* backoffDuration(attempt), jitter being what randSource.Intn returned. The
\* result stands for the Duration (time.Second << shift) + jitterMs ms;
\* wrapped says that the shift left the int64 range, so that the Duration is
\* not 2^shift seconds.
backoffDuration(attempt, jitter) ==
    LET a == IF attempt < 1 THEN 1 ELSE attempt
    IN  [wrapped |-> ~ShlFits(a - 1), shift |-> a - 1, jitterMs |-> jitter]

\* the lines handed to parseDiffLine
ParseAlphabet == {"+", "-", "=", ">", " ", "T", "|"}
ShortLines == UNION {[1..n -> ParseAlphabet] : n \in 0..MaxLineLen}

\* lines of the grammar "<op> <table> => <values>", the values text drawn
\* from letters, blanks and pipes
ValueAlphabet == {"a", " ", "|"}
ValueTexts == UNION {[1..n -> ValueAlphabet] : n \in 0..MaxValueLen}
GrammarPrefix(o) == <<o, " ", "T", " ", "=", ">", " ">>
GrammarLines == {GrammarPrefix(o) \o v : o \in {"+", "-"}, v \in ValueTexts}
ParseLines == ShortLines \cup GrammarLines

(***************************************************************************)
(* The diff computer (compareTableRows).  A snapshot is the sequence of    *)
(* the rows read from a table, a row the sequence of its column values.    *)
(* The two maps are iterated in an order the runtime picks, so the         *)
(* function has a set of possible results: each is the sequence of the     *)
(* texts written to the builder, the additions before the deletions.       *)
(***************************************************************************)
\* strings.Join(row.Columns, "|")
RowKey(row) == Join(row, Pipe)

\* origMap, modMap: the keys of a snapshot
KeySet(rows) == {RowKey(rows[i]) : i \in 1..Len(rows)}

\* fmt.Sprintf("+ %s => %s\n", table, key), and the same with "-"
DiffLine(o, table, key) == <<o, " ">> \o table \o <<" ">> \o Arrow \o <<" ">> \o key \o <<"\n">>

\* the orders in which a range over a map can visit its keys
Orderings(S) == {f \in [1..Cardinality(S) -> S] : \A i, j \in 1..Cardinality(S) : f[i] = f[j] => i = j}

WritesOf(o, table, keys) == [i \in 1..Len(keys) |-> DiffLine(o, table, keys[i])]

\* compareTableRows writing an addition for every key of mod
compareTableRowsAddingAll(table, orig, mod) ==
    {WritesOf("+", table, a) \o WritesOf("-", table, d) :
        a \in Orderings(KeySet(mod)), d \in Orderings(KeySet(orig) \ KeySet(mod))}

\* compareTableRows without its second loop
compareTableRowsNoDeletions(table, orig, mod) ==
    {WritesOf("+", table, a) : a \in Orderings(KeySet(mod) \ KeySet(orig))}

compareTableRows(table, orig, mod) ==
    {WritesOf("+", table, a) \o WritesOf("-", table, d) :
        a \in Orderings(KeySet(mod) \ KeySet(orig)),
        d \in Orderings(KeySet(orig) \ KeySet(mod))}

\* sb.String(): the writes one after the other
RECURSIVE Flatten(_)
Flatten(ws) == IF ws = <<>> THEN <<>> ELSE Head(ws) \o Flatten(Tail(ws))

\* bufio.Scanner with ScanLines: the text cut at each "\n", a "\r" before it
\* dropped, no token for an empty rest
RECURSIVE ScanLines(_)
ScanLines(text) ==
    LET i == IndexOf(text, <<"\n">>)
        DropCR(l) == IF l # <<>> /\ l[Len(l)] = "\r" THEN SubSeq(l, 1, Len(l) - 1) ELSE l
    IN  IF text = <<>> THEN <<>>
        ELSE IF i = 0 THEN <<DropCR(text)>>
        ELSE <<DropCR(SubSeq(text, 1, i - 1))>> \o ScanLines(SubSeq(text, i + 1, Len(text)))

\* the rows of the snapshots: no column, one empty column, one column, two
\* columns, one column whose value holds a pipe
RowKinds == {<<>>, <<<<>>>>, <<<<"a">>>>, <<<<"a">>, <<"b">>>>, <<<<"a", "|", "b">>>>}
SnapshotsOver(kinds, n) == UNION {[1..k -> kinds] : k \in 0..n}
Snapshots == SnapshotsOver(RowKinds, MaxSnapshot)

(***************************************************************************)
(* GenerateTransform.  Its collaborators answer from the call's inputs:    *)
(* which of the two files exist, what listing the tables of each package   *)
(* gives, and what ReadTableRows gives for each table of each package      *)
(* (nil rows with an error, or the rows).                                  *)
(***************************************************************************)
TableU == <<"U">>
TableNames == {TableT, TableU}
Packages == {"orig", "mod"}

Unreadable == [ok |-> FALSE, rows |-> <<>>]
Readable(rows) == [ok |-> TRUE, rows |-> rows]
ReadOutcomes == {Unreadable, Readable(<<>>), Readable(<<<<<<"a">>>>, <<<<"a">>, <<"b">>>>>>)}

ListFailed == [ok |-> FALSE, tables |-> {}]
Listed(ts) == [ok |-> TRUE, tables |-> ts]
ListOutcomes == {ListFailed} \cup {Listed(ts) : ts \in SUBSET TableNames}

AllReads == [TableNames \X Packages -> ReadOutcomes]
NoReads == [x \in TableNames \X Packages |-> Unreadable]

GenerateCall(present, lo, lm, reads) ==
    [fn |-> "GenerateTransform", present |-> present, origTables |-> lo,
     modTables |-> lm, reads |-> reads]

\* the inputs that do not matter to a run are held fixed
GenerateCalls ==
    {GenerateCall(p, ListFailed, ListFailed, NoReads) : p \in (SUBSET Packages) \ {Packages}}
    \cup {GenerateCall(Packages, lo, lm, NoReads) :
             lo \in ListOutcomes, lm \in ListOutcomes}
    \cup {GenerateCall(Packages, Listed(to), Listed(tm), r) :
             to \in SUBSET TableNames, tm \in SUBSET TableNames, r \in AllReads}

GtStart == [pc |-> "stat", todo |-> {}, differences |-> <<>>]
GtDone(l) == [l EXCEPT !.pc = "done"]

\* the skip test with either error in place of both
SkipTableOnEitherError(err1, err2) == err1 \/ err2

\* if err1 != nil && err2 != nil { continue }
SkipTable(err1, err2) == err1 /\ err2

(***************************************************************************)
(* The edit operations: MsiSession.EditTable and MsiSession.EditRecord, on *)
(* a session the caller holds, and the package function EditRecord, which  *)
(* opens the database itself.  The UPDATE is kept by its parts: the table, *)
(* the assignments of the set clause, and the key of the row it is         *)
(* restricted to.                                                          *)
(***************************************************************************)
EditFns == {"MsiSession.EditTable", "MsiSession.EditRecord", "EditRecord"}

\* "COL1=x", "COL1" (no value), "COL1=x,COL1= " (a blank value last)
SetClauses == {<<"C", "O", "L", "1", "=", "x">>,
               <<"C", "O", "L", "1">>,
               <<"C", "O", "L", "1", "=", "x", ",", "C", "O", "L", "1", "=", " ">>}

\* what fmt.Scanln leaves in response: one word, or nothing
Responses == {<<"y">>, <<"Y">>, <<"y", "e", "s">>, <<"n">>, <<>>}

\* the session the method is called on: open read-write, closed, read-only
SessionKinds == {[closed |-> FALSE, mode |-> 1], [closed |-> TRUE, mode |-> 1],
                 [closed |-> FALSE, mode |-> 0]}

EditCall(fn, s, clause, n, d, i) ==
    [fn |-> fn, closed |-> s.closed, mode |-> s.mode, table |-> TableT,
     setClause |-> clause, rowNum |-> n, dryRun |-> d, interactive |-> i]

EditCalls ==
    {EditCall("MsiSession.EditTable", s, c, 0, d, i) :
        s \in SessionKinds, c \in SetClauses, d \in BOOLEAN, i \in BOOLEAN}
    \cup {EditCall("MsiSession.EditRecord", s, c, n, d, i) :
        s \in SessionKinds, c \in SetClauses, n \in 0..MaxRowNum,
        d \in BOOLEAN, i \in BOOLEAN}
    \cup {EditCall("EditRecord", [closed |-> FALSE, mode |-> 1], c, n, d, i) :
        c \in SetClauses, n \in 0..MaxRowNum, d \in BOOLEAN, i \in BOOLEAN}

EdStart == [pc |-> "enter", fields |-> <<>>, keyed |-> FALSE, key |-> <<>>]

\* the assignments of a set clause, each pair trimmed before the cut at "="
\* (the session methods) or its two parts trimmed after it (EditRecord)
SetPairs(clause, trimPair) ==
    LET pairs == Split(clause, <<",">>)
    IN  [k \in 1..Len(pairs) |->
            SplitN2(IF trimPair THEN TrimSpace(pairs[k]) ELSE pairs[k], <<"=">>)]

ValidSetClause(clause, trimPair) ==
    \A k \in 1..Len(SetPairs(clause, trimPair)) : Len(SetPairs(clause, trimPair)[k]) = 2

SetFields(clause, trimPair) ==
    LET ps == SetPairs(clause, trimPair)
    IN  [k \in 1..Len(ps) |->
            IF trimPair THEN [field |-> ps[k][1], value |-> ps[k][2]]
            ELSE [field |-> TrimSpace(ps[k][1]), value |-> TrimSpace(ps[k][2])]]

\* ValidateEdit
ValidateEdit(table, fields) ==
    /\ table # <<>>
    /\ \A k \in 1..Len(fields) :
          TrimSpace(fields[k].field) # <<>> /\ TrimSpace(fields[k].value) # <<>>

\* what the database does with an UPDATE whose Execute succeeds: in every
\* row of the table (with the key in its first column, if one is given) the
\* columns named by the assignments take the values, the last assignment
\* of a column winning
SetCells(cols, fields) ==
    [c \in 1..Len(cols) |->
        LET hits == {k \in 1..Len(fields) : fields[k].field = ColPrefix \o Itoa(c)}
        IN  IF hits = {} THEN cols[c]
            ELSE fields[CHOOSE k \in hits : \A j \in hits : j <= k].value]

DbUpdate(rows, table, l) ==
    [r \in 1..Len(rows) |->
        IF /\ rows[r].table = table
           /\ (l.keyed => rows[r].cols # <<>> /\ rows[r].cols[1] = l.key)
        THEN [rows[r] EXCEPT !.cols = SetCells(@, l.fields)]
        ELSE rows[r]]

\* the guard of the update with the dry-run flag ignored
AppliesEditAlways(dry) == TRUE

\* if !dryRun { ... Execute ... Commit }
AppliesEdit(dry) == ~dry

\* EditRecord: if dryRun { return nil } before the Commit
SkipsCommit(dry) == dry

(***************************************************************************)
(* FormatRows.                                                             *)
(***************************************************************************)
ColumnSep == <<" ", "|", " ">>

\* FormatRows numbering the rows from 0
FormatRowsFromZero(rows) ==
    Flatten([i \in 1..Len(rows) |->
               <<"[">> \o Itoa(i - 1) \o <<"]", " ">> \o Join(rows[i], ColumnSep) \o <<"\n">>])

\* fmt.Sprintf("[%d] %s\n", idx+1, strings.Join(row.Columns, " | ")) per row
FormatRows(rows) ==
    Flatten([i \in 1..Len(rows) |->
               <<"[">> \o Itoa(i) \o <<"]", " ">> \o Join(rows[i], ColumnSep) \o <<"\n">>])

\* rows with no column, one, two, an empty value, a value of two lines
FormatRowKinds == {<<>>, <<<<"a">>>>, <<<<"a">>, <<"b">>>>, <<<<>>, <<"b">>>>,
                   <<<<"a", "\n", "b">>>>}

\* the values handed to buildSQL: empty, plain, with quotes, with a comma
SqlValues == {<<>>, <<"a">>, <<"'">>, <<"a", "'", "b">>, <<"'", "'">>, <<",">>}
ValueLists == UNION {[1..n -> SqlValues] : n \in 0..MaxValues}

LibCalls ==
    {[fn |-> "parseDiffLine", line |-> l] : l \in ParseLines}
    \cup {[fn |-> "backoffDuration", attempt |-> a] : a \in (0 - 1)..MaxAttempt}
    \cup {[fn |-> "compareTableRows", table |-> TableT, orig |-> a, mod |-> b] :
             a \in Snapshots, b \in Snapshots}
    \cup GenerateCalls
    \cup EditCalls
    \cup {[fn |-> "FormatRows", rows |-> r] : r \in SnapshotsOver(FormatRowKinds, MaxSnapshot)}
    \cup {[fn |-> "buildSQL", op |-> o, table |-> t, vals |-> v] :
             o \in {"+", "-", "X"}, t \in TableNames, v \in ValueLists}
    \cup {[fn |-> "SafeExecute", operation |-> o, out |-> x] :
             o \in OpNames, x \in FnOutcomes}
    \cup {[fn |-> "SafeExecuteWithRetry", operation |-> o, maxRetries |-> m] :
             o \in OpNames, m \in 0..MaxRetriesArg}

mainVars == <<inputs, pc, trace, result, applyVars, sessVars, dbVars, spinVars, eqVars,
              discVars, retryVars, answered, api>>
mainVarsButDb == <<inputs, pc, trace, result, applyVars, sessVars, spinVars, eqVars,
                   discVars, retryVars, answered, api>>

\* no top-level operation is running
MainIdle ==
    /\ op = "none" /\ doc = <<>> /\ fileState = "ok"
    /\ dryRun = FALSE /\ interactive = FALSE /\ sqlQuery = <<>>
    /\ comInitialized = FALSE
    /\ pc = "idle" /\ trace = <<>> /\ result = NoResult
    /\ lines = <<>> /\ queries = <<>> /\ idx = 0 /\ warnings = 0
    /\ sess = [s \in 1..2 |-> NoSession]
    /\ oa = 1 /\ opens = 0 /\ closes = 0 /\ openAttempts = 0 /\ comBalance = 0
    /\ dbWork = InitialRows /\ dbSaved = InitialRows /\ commits = 0
    /\ done = "none" /\ doneCloses = 0 /\ spinner = "none"
    /\ eqStack = <<>> /\ eqPc = "idle" /\ eqRet = "none" /\ eqTrans = FALSE /\ eqRows = 0
    /\ cur = 1 /\ method = 1 /\ bi = 1 /\ found = FALSE
    /\ outer = 1 /\ fErr = NoResult
    /\ answered = NoAnswer

LibInit ==
    /\ MainIdle
    /\ call \in LibCalls
    /\ ret = NoRet
    /\ rt = IF call.fn = "SafeExecuteWithRetry" THEN [RtIdle EXCEPT !.pc = "start"]
            ELSE RtIdle
    /\ loc = IF call.fn = "GenerateTransform" THEN GtStart
             ELSE IF call.fn \in EditFns THEN EdStart
             ELSE NoLocals
    /\ api = ApiStart

Returns(r) == [state |-> "returned"] @@ r

CallParseDiffLine ==
    /\ call.fn = "parseDiffLine" /\ ret = NoRet
    /\ ret' = Returns([parsed |-> parseDiffLine(call.line)])
    /\ UNCHANGED <<mainVars, call, rt, loc>>

CallBackoffDuration(jitter) ==
    /\ call.fn = "backoffDuration" /\ ret = NoRet
    /\ ret' = Returns([wait |-> backoffDuration(call.attempt, jitter)])
    /\ UNCHANGED <<mainVars, call, rt, loc>>

CallCompareTableRows ==
    /\ call.fn = "compareTableRows" /\ ret = NoRet
    /\ \E out \in compareTableRows(call.table, call.orig, call.mod) :
          ret' = Returns([writes |-> out])
    /\ UNCHANGED <<mainVars, call, rt, loc>>

\* Step 0: the two os.Stat checks
GtStat ==
    /\ call.fn = "GenerateTransform" /\ loc.pc = "stat"
    /\ IF "orig" \notin call.present
       THEN ret' = Returns([err |-> "original MSI not found"]) /\ loc' = GtDone(loc)
       ELSE IF "mod" \notin call.present
       THEN ret' = Returns([err |-> "modified MSI not found"]) /\ loc' = GtDone(loc)
       ELSE ret' = ret /\ loc' = [loc EXCEPT !.pc = "list"]
    /\ UNCHANGED <<mainVars, call, rt>>

\* Step 1: getTables of both packages and the union of the names
GtList ==
    /\ call.fn = "GenerateTransform" /\ loc.pc = "list"
    /\ IF ~call.origTables.ok
       THEN ret' = Returns([err |-> "failed to list tables in original"])
            /\ loc' = GtDone(loc)
       ELSE IF ~call.modTables.ok
       THEN ret' = Returns([err |-> "failed to list tables in modified"])
            /\ loc' = GtDone(loc)
       ELSE LET allTables == call.origTables.tables \cup call.modTables.tables
            IN  /\ ret' = ret
                /\ loc' = [loc EXCEPT !.todo = allTables,
                                      !.pc = IF allTables = {} THEN "write" ELSE "loop"]
    /\ UNCHANGED <<mainVars, call, rt>>

\* Step 2, one turn of the loop: the table is read from both packages and
\* compared, or skipped
GtTable(table) ==
    /\ call.fn = "GenerateTransform" /\ loc.pc = "loop"
    /\ table \in loc.todo
    /\ LET r1 == call.reads[<<table, "orig">>]
           r2 == call.reads[<<table, "mod">>]
           rest == loc.todo \ {table}
           after == IF rest = {} THEN "write" ELSE "loop"
       IN  IF SkipTable(~r1.ok, ~r2.ok)
           THEN loc' = [loc EXCEPT !.todo = rest, !.pc = after]
           ELSE \E w \in compareTableRows(table, r1.rows, r2.rows) :
                   loc' = [loc EXCEPT !.todo = rest, !.pc = after,
                                      !.differences =
                                          IF Flatten(w) = <<>> THEN @
                                          ELSE Append(@, Flatten(w))]
    /\ UNCHANGED <<mainVars, call, ret, rt>>

\* Step 3: writeMSTStub
GtWrite(out) ==
    /\ call.fn = "GenerateTransform" /\ loc.pc = "write"
    /\ out \in {"ok", "err"}
    /\ ret' = IF out = "ok" THEN Returns([err |-> "nil", file |-> Flatten(loc.differences)])
              ELSE Returns([err |-> "failed to write transform file"])
    /\ loc' = GtDone(loc)
    /\ UNCHANGED <<mainVars, call, rt>>

CallBuildSQL ==
    /\ call.fn = "buildSQL" /\ ret = NoRet
    /\ ret' = Returns([sql |-> buildSQL(call.op, call.table, call.vals)])
    /\ UNCHANGED <<mainVars, call, rt, loc>>

\* the call returns err, or nil
EdFail(e) == ret' = Returns([err |-> e]) /\ loc' = [loc EXCEPT !.pc = "done"]
EdSucceed == EdFail("nil")
EdGoto(l) == ret' = ret /\ loc' = l

\* after the preview and the prompt of a session method
EdAfterConfirm(l) ==
    IF AppliesEdit(call.dryRun) THEN EdGoto([l EXCEPT !.pc = "apply"]) ELSE EdSucceed

\* MsiSession.EditTable up to the preview: the checks and the set clause
EtEnter ==
    /\ call.fn = "MsiSession.EditTable" /\ loc.pc = "enter"
    /\ IF call.closed THEN EdFail("session is closed")
       ELSE IF call.mode # 1 THEN EdFail("edit not allowed in read-only mode")
       ELSE IF ~ValidSetClause(call.setClause, TRUE) THEN EdFail("invalid set clause")
       ELSE LET l == [loc EXCEPT !.fields = SetFields(call.setClause, TRUE)]
            IN  IF call.dryRun \/ call.interactive
                THEN EdGoto([l EXCEPT !.pc = "preview"])
                ELSE EdAfterConfirm(l)
    /\ UNCHANGED <<mainVars, call, rt>>

\* MsiSession.EditTable: the preview query (a SELECT) and its print
EtPreview(out) ==
    /\ call.fn = "MsiSession.EditTable" /\ loc.pc = "preview"
    /\ out \in {"ok", "err", "panic"}
    /\ IF out = "err" THEN EdFail("failed to preview changes")
       ELSE IF out = "panic" THEN EdFail("panic")
       ELSE IF call.interactive THEN EdGoto([loc EXCEPT !.pc = "prompt"])
       ELSE EdAfterConfirm(loc)
    /\ UNCHANGED <<mainVars, call, rt>>

\* MsiSession.EditRecord up to the prompt: the checks, the rows, the column
\* names, the key and the set clause
SerEnter(out, colsOut) ==
    /\ call.fn = "MsiSession.EditRecord" /\ loc.pc = "enter"
    /\ out \in {"ok", "err", "panic"}
    /\ colsOut \in {"ok", "err", "none"}
    /\ LET rows == SnapshotOf(dbWork, call.table)
       IN  IF call.closed THEN EdFail("session is closed")
           ELSE IF call.mode # 1 THEN EdFail("edit not allowed in read-only mode")
           ELSE IF out = "err" THEN EdFail("failed to fetch table")
           ELSE IF out = "panic" THEN EdFail("panic")
           ELSE IF call.rowNum < 1 \/ call.rowNum > Len(rows)
           THEN EdFail("invalid row number")
           ELSE IF colsOut = "err" THEN EdFail("failed to get columns")
           ELSE IF colsOut = "none" THEN EdFail("no columns found")
           ELSE IF rows[call.rowNum] = <<>> THEN EdFail("panic")
           ELSE IF rows[call.rowNum][1] = <<>> THEN EdFail("primary key value is empty")
           ELSE IF ~ValidSetClause(call.setClause, TRUE) THEN EdFail("invalid set clause")
           ELSE LET l == [loc EXCEPT !.fields = SetFields(call.setClause, TRUE),
                                     !.keyed = TRUE, !.key = rows[call.rowNum][1]]
                IN  IF call.interactive THEN EdGoto([l EXCEPT !.pc = "prompt"])
                    ELSE EdAfterConfirm(l)
    /\ UNCHANGED <<mainVars, call, rt>>

\* the session methods' prompt: fmt.Scanln and the comparison with "y"
EdPrompt(response) ==
    /\ call.fn \in {"MsiSession.EditTable", "MsiSession.EditRecord"}
    /\ loc.pc = "prompt"
    /\ IF ToLower(response) # <<"y">> THEN EdFail("update cancelled by user")
       ELSE EdAfterConfirm(loc)
    /\ UNCHANGED <<mainVars, call, rt>>

\* the session methods' update: openView, Execute, Commit
EdApply(out) ==
    /\ call.fn \in {"MsiSession.EditTable", "MsiSession.EditRecord"}
    /\ loc.pc = "apply"
    /\ out \in {"ok", "openErr", "execErr", "commitErr", "panic"}
    /\ IF out = "ok" THEN EdSucceed ELSE EdFail(out)
    /\ IF out \in {"ok", "commitErr"}
       THEN /\ dbWork' = DbUpdate(dbWork, call.table, loc)
            /\ commits' = commits + 1
            /\ dbSaved' = IF out = "ok" THEN dbWork' ELSE dbSaved
       ELSE UNCHANGED dbVars
    /\ UNCHANGED <<mainVarsButDb, call, rt>>

\* EditRecord up to the prompt: the rows, the record, the set clause and
\* its validation
ErRead(out) ==
    /\ call.fn = "EditRecord" /\ loc.pc = "enter"
    /\ out \in {"ok", "err"}
    /\ LET rows == SnapshotOf(dbSaved, call.table)
           fields == SetFields(call.setClause, FALSE)
       IN  IF out = "err" THEN EdFail("failed to read table rows")
           ELSE IF call.rowNum < 1 \/ call.rowNum > Len(rows)
           THEN EdFail("record number is out of range")
           ELSE IF rows[call.rowNum] = <<>> THEN EdFail("the selected record has no columns")
           ELSE IF ~ValidSetClause(call.setClause, FALSE)
           THEN EdFail("invalid set clause format")
           ELSE IF ~ValidateEdit(call.table, fields) THEN EdFail("validation failed")
           ELSE EdGoto([loc EXCEPT !.fields = fields, !.keyed = TRUE,
                                   !.key = rows[call.rowNum][1],
                                   !.pc = IF call.interactive THEN "prompt" ELSE "open"])
    /\ UNCHANGED <<mainVars, call, rt>>

\* EditRecord's prompt: a line read from the terminal
ErPrompt(answer) ==
    /\ call.fn = "EditRecord" /\ loc.pc = "prompt"
    /\ LET response == TrimSpace(ToLower(answer))
       IN  IF IndexOf(answer, <<"\n">>) = 0 THEN EdFail("failed to read input")
           ELSE IF response # <<"y">> /\ response # <<"y", "e", "s">>
           THEN EdFail("update aborted by user")
           ELSE EdGoto([loc EXCEPT !.pc = "open"])
    /\ UNCHANGED <<mainVars, call, rt>>

\* EditRecord: COM, the installer object, OpenDatabase in mode 1, OpenView
ErOpen(out) ==
    /\ call.fn = "EditRecord" /\ loc.pc = "open"
    /\ out \in {"ok", "err"}
    /\ IF out = "err" THEN EdFail("open error") ELSE EdGoto([loc EXCEPT !.pc = "exec"])
    /\ UNCHANGED <<mainVars, call, rt>>

\* EditRecord: Execute of the UPDATE, in a dry run too; after a failure the
\* deferred Release drops the database handle
ErExecute(out) ==
    /\ call.fn = "EditRecord" /\ loc.pc = "exec"
    /\ out \in {"ok", "err"}
    /\ IF out = "err"
       THEN EdFail("Execute error") /\ dbWork' = dbSaved
       ELSE /\ EdGoto([loc EXCEPT !.pc = "executed"])
            /\ dbWork' = DbUpdate(dbWork, call.table, loc)
    /\ UNCHANGED <<mainVarsButDb, dbSaved, commits, call, rt>>

\* EditRecord: the return of a dry run, or the Commit; the handle is
\* released on return and what was not committed is dropped
ErFinish(out) ==
    /\ call.fn = "EditRecord" /\ loc.pc = "executed"
    /\ out \in {"ok", "err"}
    /\ IF SkipsCommit(call.dryRun)
       THEN /\ out = "ok"
            /\ EdSucceed
            /\ dbWork' = dbSaved
            /\ UNCHANGED <<dbSaved, commits>>
       ELSE /\ commits' = commits + 1
            /\ IF out = "ok"
               THEN EdSucceed /\ dbSaved' = dbWork /\ dbWork' = dbWork
               ELSE EdFail("Commit error") /\ dbWork' = dbSaved /\ dbSaved' = dbSaved
    /\ UNCHANGED <<mainVarsButDb, call, rt>>

CallFormatRows ==
    /\ call.fn = "FormatRows" /\ ret = NoRet
    /\ ret' = Returns([text |-> FormatRows(call.rows)])
    /\ UNCHANGED <<mainVars, call, rt, loc>>

CallSafeExecute ==
    /\ call.fn = "SafeExecute" /\ ret = NoRet
    /\ ret' = Returns([err |-> SafeExecute(call.operation, call.out)])
    /\ UNCHANGED <<mainVars, call, rt, loc>>

\* SafeExecuteWithRetry: the maxRetries check and the loop head
RetryEnter ==
    /\ call.fn = "SafeExecuteWithRetry" /\ rt.pc = "start"
    /\ IF call.maxRetries < 1
       THEN /\ ret' = Returns([err |-> ErrorOf(call.operation \o InvalidMaxRetries
                                                \o FormatInt(call.maxRetries), <<>>)])
            /\ rt' = [rt EXCEPT !.pc = "done"]
       ELSE /\ rt' = [rt EXCEPT !.pc = "call", !.attempt = 1]
            /\ UNCHANGED ret
    /\ UNCHANGED <<mainVars, call, loc>>

\* one turn of the loop: SafeExecute(operation, f), then return, sleep or break
RetryAttempt(out) ==
    /\ call.fn = "SafeExecuteWithRetry" /\ rt.pc = "call"
    /\ LET err == SafeExecute(call.operation, out)
           again == ShouldRetry(isTransientError(err), rt.attempt, call.maxRetries)
       IN  /\ rt' = [rt EXCEPT !.calls = @ + 1,
                               !.hist = Append(@, out),
                               !.lastErr = IF err.nil THEN @ ELSE err,
                               !.pc = IF ~err.nil /\ again THEN "sleep" ELSE "done"]
           /\ ret' = IF err.nil THEN Returns([err |-> NilError])
                     ELSE IF again THEN ret
                     ELSE Returns([err |-> ErrorOf(call.operation \o FailedAfter
                                                    \o FormatInt(call.maxRetries)
                                                    \o AttemptsSep \o err.text,
                                                    err.text)])
    /\ UNCHANGED <<mainVars, call, loc>>

\* time.Sleep(backoffDuration(attempt)); continue
RetrySleep(jitter) ==
    /\ call.fn = "SafeExecuteWithRetry" /\ rt.pc = "sleep"
    /\ rt' = [rt EXCEPT !.wait = backoffDuration(rt.attempt, jitter),
                        !.sleeps = @ + 1,
                        !.attempt = @ + 1,
                        !.pc = "call"]
    /\ UNCHANGED <<mainVars, call, ret, loc>>

LibNext ==
    \/ CallParseDiffLine
    \/ CallCompareTableRows
    \/ CallBuildSQL
    \/ CallFormatRows
    \/ EtEnter
    \/ \E out \in {"ok", "err", "panic"} : EtPreview(out)
    \/ \E out \in {"ok", "err", "panic"}, colsOut \in {"ok", "err", "none"} :
          SerEnter(out, colsOut)
    \/ \E response \in Responses : EdPrompt(response)
    \/ \E out \in {"ok", "openErr", "execErr", "commitErr", "panic"} : EdApply(out)
    \/ \E out \in {"ok", "err"} : ErRead(out)
    \/ \E answer \in Answers : ErPrompt(answer)
    \/ \E out \in {"ok", "err"} : ErOpen(out)
    \/ \E out \in {"ok", "err"} : ErExecute(out)
    \/ \E out \in {"ok", "err"} : ErFinish(out)
    \/ GtStat
    \/ GtList
    \/ \E table \in TableNames : GtTable(table)
    \/ \E out \in {"ok", "err"} : GtWrite(out)
    \/ \E jitter \in Jitters : CallBackoffDuration(jitter)
    \/ CallSafeExecute
    \/ RetryEnter
    \/ \E out \in FnOutcomes : RetryAttempt(out)
    \/ \E jitter \in JitterEdges : RetrySleep(jitter)

LibSpec == LibInit /\ [][LibNext]_vars

(***************************************************************************)
(* Package core under arbitrary callers: InitCOM and CleanupCOM, and the    *)
(* methods of one MsiSession, called in any order by concurrent tasks.      *)
(* InitCOM and CleanupCOM run under comMutex and are one step each;         *)
(* OpenMsiSession reads comInitialized under the mutex and does the rest    *)
(* outside it, so it is two steps.                                          *)
(***************************************************************************)
MaxApiCalls == 4
ApiModes == {-1, 0, 1, 2}
ApiOutcomes == {"ok", "fail"}
EditOutcomes == {"invalid", "ok", "fail"}
SessionMethods == {"ExecuteQuery", "Commit", "EditTable", "EditRecord"}

Answered(a, fn, err) ==
    [a EXCEPT !.calls = @ + 1, !.last = [fn |-> fn, err |-> err]]

\* a CleanupCOM that decrements whatever the count is
CleanupCOMUnchecked(a) ==
    LET n == a.comInitCount - 1
        last == n = 0 /\ a.comInitialized
    IN  Answered([a EXCEPT !.comInitCount = n,
                           !.coUninits = IF last THEN @ + 1 ELSE @,
                           !.comInitialized = IF last THEN FALSE ELSE @],
                 "CleanupCOM", "nil")

\* InitCOM; out is what ole.CoInitialize answers when it is called
InitCOM(a, out) ==
    IF a.comInitCount = 0 /\ out # "ok"
    THEN Answered(a, "InitCOM", "CoInitialize failed")
    ELSE Answered([a EXCEPT !.coInits = IF a.comInitCount = 0 THEN @ + 1 ELSE @,
                            !.comInitialized = IF a.comInitCount = 0 THEN TRUE ELSE @,
                            !.comInitCount = @ + 1],
                  "InitCOM", "nil")

\* CleanupCOM
CleanupCOM(a) ==
    IF a.comInitCount = 0
    THEN Answered(a, "CleanupCOM", "nil")
    ELSE LET n == a.comInitCount - 1
             last == n = 0 /\ a.comInitialized
         IN  Answered([a EXCEPT !.comInitCount = n,
                                !.coUninits = IF last THEN @ + 1 ELSE @,
                                !.comInitialized = IF last THEN FALSE ELSE @],
                      "CleanupCOM", "nil")

\* OpenMsiSession up to the release of comMutex: the mode check and the
\* decision whether this session initialises COM itself
OpenMsiSessionEnter(a, mode) ==
    IF mode \notin {0, 1}
    THEN Answered(a, "OpenMsiSession", "invalid mode")
    ELSE [a EXCEPT !.calls = @ + 1,
                   !.s = [ApiNoSession EXCEPT !.state = "opening", !.mode = mode,
                                              !.localCOM = ~a.comInitialized]]

\* the rest of OpenMsiSession; ComKept tells whether the local initialisation
\* outlives the attempt
OpenMsiSessionFinish(a, out) ==
    LET local == a.s.localCOM
        inited == local /\ out # "coinit"
        undone == inited /\ ComKept(out, local) = 0
    IN  [a EXCEPT !.sessInits = IF inited THEN @ + 1 ELSE @,
                  !.openUninits = IF undone THEN @ + 1 ELSE @,
                  !.s = IF out = "ok"
                        THEN [a.s EXCEPT !.state = "open", !.dbDispatch = TRUE,
                                         !.installer = TRUE]
                        ELSE ApiNoSession,
                  !.last = [fn |-> "OpenMsiSession",
                            err |-> IF out = "ok" THEN "nil" ELSE out]]

\* a Close that skips the test of s.closed
SessCloseUnguarded(a) ==
    Answered([a EXCEPT !.closeCalls = @ + 1,
                       !.dbReleases = IF a.s.dbDispatch THEN @ + 1 ELSE @,
                       !.instReleases = IF a.s.installer THEN @ + 1 ELSE @,
                       !.closeUninits = IF a.s.localCOM THEN @ + 1 ELSE @,
                       !.s = [a.s EXCEPT !.state = "closed", !.dbDispatch = FALSE,
                                         !.installer = FALSE]],
             "Close", "nil")

\* MsiSession.Close
SessClose(a) ==
    IF a.s.state = "closed"
    THEN Answered([a EXCEPT !.closeCalls = @ + 1], "Close", "nil")
    ELSE Answered([a EXCEPT !.closeCalls = @ + 1,
                            !.dbReleases = IF a.s.dbDispatch THEN @ + 1 ELSE @,
                            !.instReleases = IF a.s.installer THEN @ + 1 ELSE @,
                            !.closeUninits = IF a.s.localCOM THEN @ + 1 ELSE @,
                            !.s = [a.s EXCEPT !.state = "closed", !.dbDispatch = FALSE,
                                              !.installer = FALSE]],
                  "Close", "nil")

\* an ExecuteQuery that skips the test of s.closed
SessExecuteQueryUnguarded(a, out) ==
    Answered([a EXCEPT !.dbCalls = @ + 1], "ExecuteQuery",
             IF out = "ok" THEN "nil" ELSE "query failed")

\* MsiSession.ExecuteQuery as far as the database handle sees it: past the
\* test of s.closed it calls OpenView on the handle at least once
SessExecuteQuery(a, out) ==
    IF a.s.state = "closed"
    THEN Answered(a, "ExecuteQuery", "session is closed")
    ELSE Answered([a EXCEPT !.dbCalls = @ + 1], "ExecuteQuery",
                  IF out = "ok" THEN "nil" ELSE "query failed")

\* a Commit that skips the test of s.mode
SessCommitAnyMode(a, out) ==
    IF a.s.state = "closed"
    THEN Answered(a, "Commit", "session is closed")
    ELSE Answered([a EXCEPT !.dbCalls = @ + 1, !.dbCommits = @ + 1], "Commit",
                  IF out = "ok" THEN "nil" ELSE "failed to commit")

\* MsiSession.Commit
SessCommit(a, out) ==
    IF a.s.state = "closed"
    THEN Answered(a, "Commit", "session is closed")
    ELSE IF a.s.mode # 1
    THEN Answered(a, "Commit", "commit not allowed in read-only mode")
    ELSE Answered([a EXCEPT !.dbCalls = @ + 1, !.dbCommits = @ + 1], "Commit",
                  IF out = "ok" THEN "nil" ELSE "failed to commit")

\* MsiSession.EditTable and MsiSession.EditRecord as far as the database
\* handle sees them: an invalid set clause ends the call before any query, a
\* failing query or update ends it before the commit, and a dry run skips the
\* commit
SessEdit(a, fn, dry, out) ==
    IF a.s.state = "closed"
    THEN Answered(a, fn, "session is closed")
    ELSE IF a.s.mode # 1
    THEN Answered(a, fn, "edit not allowed in read-only mode")
    ELSE IF out = "invalid"
    THEN Answered(a, fn, "invalid set clause")
    ELSE IF out = "fail"
    THEN Answered([a EXCEPT !.dbCalls = @ + 1], fn, "edit failed")
    ELSE IF SkipsCommit(dry)
    THEN Answered([a EXCEPT !.dbCalls = @ + 1], fn, "nil")
    ELSE Answered([a EXCEPT !.dbCalls = @ + 2, !.dbCommits = @ + 1], fn, "nil")

\* every variable but api
allButApi == <<inputs, pc, trace, result, applyVars, sessVars, dbVars, spinVars, eqVars,
               discVars, retryVars, answered, call, ret, rt, loc>>

ApiInit ==
    /\ MainIdle
    /\ call = NoCall /\ ret = NoRet /\ rt = RtIdle /\ loc = NoLocals
    /\ api = ApiStart

\* a caller may start a call
MayCall == api.calls < MaxApiCalls
\* a caller holds a session
HoldsSession == api.s.state \in {"open", "closed"}

CallInitCOM(out) ==
    /\ MayCall
    /\ api' = InitCOM(api, out)
    /\ UNCHANGED allButApi

CallCleanupCOM ==
    /\ MayCall
    /\ api' = CleanupCOM(api)
    /\ UNCHANGED allButApi

CallOpenMsiSession(mode) ==
    /\ MayCall /\ api.s.state = "none"
    /\ api' = OpenMsiSessionEnter(api, mode)
    /\ UNCHANGED allButApi

OpenMsiSessionReturn(out) ==
    /\ api.s.state = "opening"
    /\ api' = OpenMsiSessionFinish(api, out)
    /\ UNCHANGED allButApi

CallExecuteQuery(out) ==
    /\ MayCall /\ HoldsSession
    /\ api' = SessExecuteQuery(api, out)
    /\ UNCHANGED allButApi

CallCommit(out) ==
    /\ MayCall /\ HoldsSession
    /\ api' = SessCommit(api, out)
    /\ UNCHANGED allButApi

CallEdit(fn, dry, out) ==
    /\ MayCall /\ HoldsSession
    /\ api' = SessEdit(api, fn, dry, out)
    /\ UNCHANGED allButApi

CallClose ==
    /\ MayCall /\ HoldsSession
    /\ api' = SessClose(api)
    /\ UNCHANGED allButApi

ApiNext ==
    \/ \E out \in {"ok", "coinit"} : CallInitCOM(out)
    \/ CallCleanupCOM
    \/ \E mode \in ApiModes : CallOpenMsiSession(mode)
    \/ \E out \in OpenOutcomes : OpenMsiSessionReturn(out)
    \/ \E out \in ApiOutcomes : CallExecuteQuery(out)
    \/ \E out \in ApiOutcomes : CallCommit(out)
    \/ \E fn \in {"EditTable", "EditRecord"}, dry \in BOOLEAN, out \in EditOutcomes :
          CallEdit(fn, dry, out)
    \/ CallClose

ApiSpec == ApiInit /\ [][ApiNext]_vars

(***************************************************************************)
(* Vocabulary of the properties.                                           *)
(***************************************************************************)
IsApply == op = "ApplyTransform"
Returned == pc = "done"
Built == queries # <<>>

IsBlank(l) == \A i \in 1..Len(l) : l[i] \in WS
Parses(l) == ~IsBlank(l) /\ parseDiffLine(l).err = "none"
ValidLines(d) == {i \in 1..Len(d) : Parses(d[i])}
InvalidLines(d) == {i \in 1..Len(d) : ~IsBlank(d[i]) /\ ~Parses(d[i])}

\* the statements of the valid lines of a document, in document order
RECURSIVE StatementsOf(_)
StatementsOf(d) ==
    IF d = <<>> THEN <<>>
    ELSE (IF Parses(Head(d))
          THEN LET p == parseDiffLine(Head(d))
               IN  <<buildSQL(p.op, p.table, p.values)>>
          ELSE <<>>) \o StatementsOf(Tail(d))

GoodOutcomes == {"skipped", "simulated", "executed"}
Outcomes == GoodOutcomes \cup {"failed", "panicked"}
StatementEvents == Outcomes \cup {"confirmed", "begin", "dbexec"}
EventsOf(kinds, k) == {p \in DOMAIN trace : trace[p][1] \in kinds /\ trace[p][2] = k}
EventsOfKind(kinds) == {p \in DOMAIN trace : trace[p][1] \in kinds}
NoExecFailure == EventsOfKind({"failed", "panicked"}) = {}

(***************************************************************************)
(* C1: a dry run of ApplyTransform executes no statement against the       *)
(* database and issues no Commit, whatever the document and the operator's *)
(* answers: the rows of the package stay what they were.                   *)
(***************************************************************************)
C1_DryRunNoEffect ==
    (IsApply /\ dryRun) =>
        /\ commits = 0
        /\ dbSaved = InitialRows
        /\ dbWork = InitialRows
        /\ EventsOfKind({"begin", "dbexec", "executed", "commit"}) = {}
        /\ eqPc = "idle"

C1_Witness ==
    /\ IsApply /\ dryRun /\ Returned
    /\ result.status = "ok"
    /\ Len(queries) >= 2
    /\ \A k \in 1..Len(queries) : EventsOf({"simulated"}, k) # {}

(***************************************************************************)
(* C2: when the execution of statement k fails in a run that is not a dry  *)
(* run, nothing follows the failure: no later statement is confirmed,      *)
(* simulated or executed, no Commit is issued, and the error returned      *)
(* names statement k.                                                      *)
(***************************************************************************)
C2_FailureAborts ==
    \A p \in EventsOfKind({"failed"}) :
        /\ p = Len(trace)
        /\ pc \in {"at_ret", "done"}
        /\ commits = 0
        /\ result.status = "err"
        /\ result.kind = "exec"
        /\ result.stmt = trace[p][2]
        /\ dbSaved = InitialRows

C2_Witness ==
    /\ IsApply /\ ~dryRun /\ Returned
    /\ \E p \in EventsOfKind({"failed"}) :
          /\ trace[p][2] = 1
          /\ Len(queries) >= 2
          /\ result.stmt = 1

(***************************************************************************)
(* C3: invalid lines are dropped with one warning each and do not abort;   *)
(* one statement is built per valid line; blank lines give neither a       *)
(* statement nor a warning; without dry-run, prompts and execution         *)
(* failures every statement is executed and then one Commit is issued.     *)
(***************************************************************************)
C3_InvalidLinesSkipped ==
    (IsApply /\ (Built \/ warnings > 0)) =>
        /\ Len(queries) = Cardinality(ValidLines(doc))
        /\ warnings = Cardinality(InvalidLines(doc))
        /\ (Returned /\ Built /\ ~dryRun /\ ~interactive /\ NoExecFailure) =>
              /\ \A k \in 1..Len(queries) : EventsOf({"executed"}, k) # {}
              /\ commits = 1
              /\ trace[Len(trace)][1] = "commit"

C3_Witness ==
    /\ IsApply /\ ~dryRun /\ ~interactive /\ Returned
    /\ result.status = "ok"
    /\ warnings = 1
    /\ Len(queries) = 1
    /\ EventsOf({"executed"}, 1) # {}
    /\ commits = 1
    /\ dbSaved # InitialRows

(***************************************************************************)
(* C4: a document that is not empty but whose lines are all invalid makes  *)
(* ApplyTransform fail without ever opening a read-write session on the    *)
(* target package.                                                         *)
(***************************************************************************)
C4_NoSessionWhenAllInvalid ==
    (IsApply /\ fileState = "ok" /\ InvalidLines(doc) # {} /\ ValidLines(doc) = {}) =>
        /\ openAttempts = 0
        /\ opens = 0
        /\ (Returned => result.status = "err")

(***************************************************************************)
(* C5: an empty document, or one of blank lines only, makes ApplyTransform *)
(* return an error before any session is opened: OpenMsiSession is never   *)
(* called, no statement and no Commit is issued.                           *)
(***************************************************************************)
C5_EmptyDocumentFailsFast ==
    (IsApply /\ fileState = "ok" /\ \A i \in 1..Len(doc) : IsBlank(doc[i])) =>
        /\ openAttempts = 0
        /\ opens = 0
        /\ commits = 0
        /\ trace = <<>>
        /\ pc \in {"at_load", "done"}
        /\ (Returned => result = Err("nolines", 0, FALSE))

C5_Witness ==
    /\ IsApply /\ fileState = "ok" /\ Returned
    /\ Len(doc) >= 2
    /\ \A i \in 1..Len(doc) : IsBlank(doc[i])
    /\ result.kind = "nolines"

(***************************************************************************)
(* C6: document order is kept end to end: the statements are those of the  *)
(* valid lines in the order of the file, and they are confirmed, skipped,  *)
(* simulated and executed in that order.                                   *)
(***************************************************************************)
C6_OrderPreserved ==
    (IsApply /\ Built) =>
        /\ [k \in 1..Len(queries) |-> queries[k].sql] = StatementsOf(doc)
        /\ \A j, k \in 1..Len(queries) : j < k => queries[j].line < queries[k].line
        /\ \A p, q \in EventsOfKind(StatementEvents) :
              p < q => trace[p][2] <= trace[q][2]

C6_Witness ==
    /\ IsApply /\ Returned /\ result.status = "ok"
    /\ Len(queries) = 2
    /\ queries[1].sql # queries[2].sql
    /\ EventsOf({"skipped"}, 1) # {}
    /\ EventsOf({"executed"}, 2) # {}

(***************************************************************************)
(* C7: every statement is taken at most once and gets exactly one outcome  *)
(* (skipped, simulated or executed) unless the run stopped before it;      *)
(* statement k+1 is not prompted for, simulated or executed before         *)
(* statement k has its outcome.                                            *)
(***************************************************************************)
C7_OneStatementAtATime ==
    IsApply =>
        /\ \A k \in 1..Len(queries) :
              /\ Cardinality(EventsOf(Outcomes, k)) <= 1
              /\ Cardinality(EventsOf({"begin"}, k)) <= 1
              /\ Cardinality(EventsOf({"confirmed"}, k)) <= 1
        /\ \A p \in EventsOfKind(StatementEvents) :
              /\ trace[p][2] \in 1..Len(queries)
              /\ \A j \in 1..(trace[p][2] - 1) :
                    \E q \in EventsOf(GoodOutcomes, j) : q < p
              /\ \A q \in EventsOf(Outcomes, trace[p][2]) : q >= p
        /\ (Returned /\ Built /\ result.status = "ok") =>
              \A k \in 1..Len(queries) : Cardinality(EventsOf(GoodOutcomes, k)) = 1

C7_Witness ==
    /\ IsApply /\ Returned /\ result.status = "ok"
    /\ Len(queries) = 2
    /\ EventsOf({"executed"}, 1) # {}
    /\ EventsOf({"skipped"}, 2) # {}
    /\ Cardinality(EventsOfKind(Outcomes)) = 2

(***************************************************************************)
(* C8: a run that is not a dry run and in which no execution fails issues  *)
(* exactly one Commit, after the last statement has its outcome; no        *)
(* statement is executed after a Commit and no Commit is issued twice.     *)
(***************************************************************************)
C8_SingleCommitAfterLoop ==
    IsApply =>
        /\ commits = Cardinality(EventsOfKind({"commit"}))
        /\ commits <= 1
        /\ \A p \in EventsOfKind({"commit"}) :
              /\ p = Len(trace)
              /\ ~dryRun
              /\ \A k \in 1..Len(queries) :
                    \E q \in EventsOf(GoodOutcomes, k) : q < p
        /\ (Returned /\ Built /\ ~dryRun /\ NoExecFailure) => commits = 1

C8_Witness ==
    /\ IsApply /\ Returned /\ ~dryRun
    /\ Len(queries) >= 2
    /\ commits = 1
    /\ result.status = "ok"
    /\ \A k \in 1..Len(queries) : EventsOf({"executed"}, k) # {}

(***************************************************************************)
(* C9: every session a top-level operation opened is closed when the       *)
(* operation returns, on every exit path.                                  *)
(***************************************************************************)
C9_SessionsClosedOnReturn ==
    Returned =>
        /\ OpenSessions(sess) = {}
        /\ closes = opens

C9_Witness ==
    /\ op = "CompareMSI" /\ Returned
    /\ result.status = "err"
    /\ result.kind = "open"
    /\ opens = 1
    /\ closes = 1
    /\ sess[1].state = "closed"
    /\ sess[2].state = "none"

(***************************************************************************)
(* C10: however the statement loop ends (all statements taken, a failed    *)
(* execution, a panic recovered by SafeExecute), the spinner has been sent *)
(* its completion signal exactly once when ApplyTransform returns.         *)
(***************************************************************************)
C10_SpinnerSignalled ==
    (IsApply /\ Returned /\ spinner # "none") =>
        /\ done = "closed"
        /\ doneCloses = 1

(***************************************************************************)
(* Vocabulary of the properties of the error layer.                        *)
(***************************************************************************)
IsRetryCall == call.fn = "SafeExecuteWithRetry" /\ call.maxRetries >= 1
RetryDone == rt.pc = "done"

\* two characters that differ at most in case
SameLetter(c, d) == ToLower(<<c>>) = ToLower(<<d>>)

\* text contains one of the transient-failure tokens, whatever the case
MentionsToken(text) ==
    \E t \in DOMAIN transientErrors :
        \E i \in 1..Len(text) :
            /\ i + Len(transientErrors[t]) - 1 <= Len(text)
            /\ \A j \in 1..Len(transientErrors[t]) :
                  SameLetter(text[i + j - 1], transientErrors[t][j])

\* the message of the failure of an invocation of f that did out
FailureText(out) ==
    call.operation \o (IF out.kind = "panic" THEN PanicSep ELSE ColonSep) \o out.msg

Succeeded(out) == out.kind = "nil"
TransientFailure(out) == ~Succeeded(out) /\ MentionsToken(FailureText(out))
FatalFailure(out) == ~Succeeded(out) /\ ~MentionsToken(FailureText(out))

(***************************************************************************)
(* C11: SafeExecuteWithRetry with maxRetries >= 1 invokes f one invocation *)
(* after the other, at least once and at most maxRetries times; it returns *)
(* nil as soon as an invocation succeeds, invokes f again only after a     *)
(* failure whose message mentions a transient-failure token, and makes no  *)
(* further invocation after the first failure that mentions none.          *)
(***************************************************************************)
C11_RetryOnlyTransient ==
    IsRetryCall =>
        /\ rt.calls = Len(rt.hist)
        /\ rt.calls <= call.maxRetries
        /\ \A i \in 1..(Len(rt.hist) - 1) : TransientFailure(rt.hist[i])
        /\ rt.pc = "sleep" => TransientFailure(rt.hist[Len(rt.hist)])
        /\ RetryDone =>
              /\ rt.calls >= 1
              /\ ret.state = "returned"
              /\ ret.err.nil <=> Succeeded(rt.hist[Len(rt.hist)])
              /\ TransientFailure(rt.hist[Len(rt.hist)]) => rt.calls = call.maxRetries

C11_Witness ==
    /\ IsRetryCall /\ RetryDone
    /\ call.maxRetries = 3
    /\ rt.calls = 2
    /\ rt.hist[1] = [kind |-> "err", msg |-> MsgTokenLower]
    /\ FatalFailure(rt.hist[2])
    /\ ~ret.err.nil

(***************************************************************************)
(* C12: when every invocation of f fails with a transient error,           *)
(* SafeExecuteWithRetry invokes f exactly maxRetries times, sleeps exactly *)
(* maxRetries - 1 times, never after the last attempt, and returns a       *)
(* non-nil error that wraps the last failure.                              *)
(***************************************************************************)
C12_ExhaustedBudget ==
    IsRetryCall =>
        /\ rt.sleeps <= call.maxRetries - 1
        /\ rt.sleeps <= rt.calls
        /\ (RetryDone /\ \A i \in 1..Len(rt.hist) : TransientFailure(rt.hist[i])) =>
              /\ rt.calls = call.maxRetries
              /\ rt.sleeps = call.maxRetries - 1
              /\ ret.state = "returned"
              /\ ~ret.err.nil
              /\ ret.err.cause = FailureText(rt.hist[Len(rt.hist)])
              /\ Contains(ret.err.text, ret.err.cause)

C12_Witness ==
    /\ IsRetryCall /\ RetryDone
    /\ call.maxRetries = 3
    /\ call.operation = OpPlain
    /\ rt.calls = 3
    /\ rt.sleeps = 2
    /\ \A i \in 1..3 : TransientFailure(rt.hist[i])
    /\ ~ret.err.nil

(***************************************************************************)
(* C13: within one ReadTableRows or QueryMSI call the attempts to open the *)
(* database never number more than the fixed maximum of 3, even when every *)
(* open attempt fails with a transient error.                              *)
(***************************************************************************)
C13_OpenAttemptsCapped ==
    op \in {"ReadTableRows", "QueryMSI"} => openAttempts <= OpenMaxRetries

(***************************************************************************)
(* C14: in ApplyTransform a statement whose execution fails with a         *)
(* transient error is executed again before the failure is treated as      *)
(* fatal and the transform is aborted.                                     *)
(***************************************************************************)
C14_TransientStatementRetried ==
    (IsApply /\ Returned /\ result.status = "err" /\ result.kind = "exec"
        /\ result.transient) =>
        Cardinality(EventsOf({"begin"}, result.stmt)) > 1

(***************************************************************************)
(* Vocabulary of the waits.                                                *)
(***************************************************************************)
IsBackoffCall == call.fn = "backoffDuration" /\ ret.state = "returned"

\* w is 2^(n-1) seconds plus a jitter in [0, JitterBound) milliseconds
ExponentialWait(w, n) ==
    /\ ~w.wrapped
    /\ w.shift = n - 1
    /\ w.jitterMs \in 0..(JitterBound - 1)

\* a < b for two waits that are whole seconds 2^shift plus less than a second
WaitLess(a, b) ==
    /\ ~a.wrapped /\ ~b.wrapped
    /\ a.shift < b.shift \/ (a.shift = b.shift /\ a.jitterMs < b.jitterMs)

\* the attempt number backoffDuration works with
Floored(n) == IF n < 1 THEN 1 ELSE n

\* the last attempt number whose time.Second << (n - 1) is within int64
LastExactAttempt == DurationBits - SecondBits + 1

C16_PanicsBecomeErrors ==
    (call.fn = "SafeExecute" /\ ret # NoRet) =>
        /\ ret.state = "returned"
        /\ call.out.kind = "panic" => ~ret.err.nil
        /\ ~ret.err.nil => HasPrefix(ret.err.text, call.operation \o ColonSep)
        /\ ~ret.err.nil => Contains(ret.err.text, call.out.msg)
        /\ ret.err.nil <=> call.out.kind = "nil"

C16_Witness ==
    /\ call.fn = "SafeExecute" /\ ret # NoRet
    /\ call.operation = OpPlain
    /\ call.out = [kind |-> "panic", msg |-> MsgPlain]
    /\ ~ret.err.nil
    /\ ret.err.text = OpPlain \o PanicSep \o MsgPlain

(***************************************************************************)
(* C17: when the transform file is missing or unreadable, ApplyTransform   *)
(* returns an error at once: the read is made once, no session is opened,  *)
(* no statement is issued and nothing is committed.                        *)
(***************************************************************************)
C17_UnreadableFileFailsFast ==
    (IsApply /\ fileState # "ok") =>
        /\ \/ pc = "at_load" /\ result = NoResult
           \/ Returned /\ result.status = "err" /\ result.kind = "input"
        /\ openAttempts = 0 /\ opens = 0
        /\ OpenSessions(sess) = {}
        /\ queries = <<>> /\ trace = <<>>
        /\ commits = 0
        /\ dbWork = InitialRows /\ dbSaved = InitialRows

C17_Witness ==
    /\ IsApply /\ fileState = "unreadable"
    /\ Returned
    /\ result.status = "err" /\ result.kind = "input"
    /\ openAttempts = 0

(***************************************************************************)
(* C18: when every statement was executed and the final Commit fails,      *)
(* ApplyTransform returns an error that names the commit failure, does not *)
(* report success, executes no statement a second time, and has closed the *)
(* session when it returns.                                                *)
(***************************************************************************)
C18_CommitFailureSurfaced ==
    (IsApply /\ \E p \in DOMAIN trace : trace[p] = <<"commit", 0, "failed">>) =>
        /\ pc \in {"at_ret", "done"}
        /\ result.status = "err" /\ result.kind = "commit"
        /\ trace[Len(trace)] = <<"commit", 0, "failed">>
        /\ commits = 1
        /\ dbSaved = InitialRows
        /\ \A k \in 1..Len(queries) : Cardinality(EventsOf({"begin"}, k)) <= 1
        /\ Returned => OpenSessions(sess) = {} /\ closes = opens /\ opens = 1

C18_Witness ==
    /\ IsApply /\ Returned /\ ~interactive
    /\ Len(queries) = 2
    /\ \A k \in 1..2 : EventsOf({"executed"}, k) # {}
    /\ trace[Len(trace)] = <<"commit", 0, "failed">>
    /\ result.kind = "commit"
    /\ sess[1].state = "closed"

(***************************************************************************)
(* Vocabulary of the prompts.                                              *)
(***************************************************************************)
\* the answer, trimmed, is y or yes in any case
Affirmative(answer) ==
    LET t == TrimSpace(answer)
    IN  \/ Len(t) = 1 /\ t[1] \in {"y", "Y"}
        \/ Len(t) = 3 /\ t[1] \in {"y", "Y"} /\ t[2] \in {"e", "E"} /\ t[3] \in {"s", "S"}

(***************************************************************************)
(* C19: in interactive mode a statement is simulated or executed only      *)
(* after its own prompt was answered y or yes (trimmed, any case); any     *)
(* other answer marks it skipped, sends nothing to the database for it,    *)
(* and the loop goes on with the next statement instead of aborting.       *)
(***************************************************************************)
C19_PromptGatesStatement ==
    (IsApply /\ interactive) =>
        /\ \A p \in EventsOfKind({"simulated", "begin", "dbexec"}) :
              \E q \in EventsOf({"confirmed"}, trace[p][2]) : q < p
        /\ LET prompts == EventsOfKind({"confirmed", "skipped"})
               last == CHOOSE p \in prompts : \A q \in prompts : q <= p
           IN  IF prompts = {} THEN ~answered.given
               ELSE /\ answered.given
                    /\ trace[last][1] = "confirmed" <=> Affirmative(answered.text)
        /\ \A p \in EventsOfKind({"skipped"}) :
              /\ EventsOf(StatementEvents \ {"skipped"}, trace[p][2]) = {}
              /\ Cardinality(EventsOf({"skipped"}, trace[p][2])) = 1
              /\ IF p = Len(trace)
                 THEN /\ idx = trace[p][2] + 1
                      /\ result.status # "err"
                      /\ pc = LoopPc(idx, Len(queries))
                            \/ (idx > Len(queries) /\ pc \in {"at_commit", "at_ret", "done"})
                 ELSE trace[p + 1][2] = trace[p][2] + 1 \/ trace[p + 1][1] = "commit"

C19_Witness ==
    /\ IsApply /\ interactive /\ ~dryRun
    /\ Len(queries) = 2
    /\ trace = <<<<"confirmed", 1>>, <<"begin", 1>>, <<"dbexec", 1>>, <<"dbexec", 1>>,
                 <<"executed", 1>>, <<"skipped", 2>>>>
    /\ answered = [given |-> TRUE, text |-> AnsEOF]
    /\ idx = 3

(***************************************************************************)
(* Vocabulary of the parser's properties.                                  *)
(***************************************************************************)
IsParseCall == call.fn = "parseDiffLine" /\ ret # NoRet

\* the positions of r at which "=>" starts
ArrowsIn(r) == {i \in 1..(Len(r) - 1) : r[i] = "=" /\ r[i + 1] = ">"}

\* the text of r before its first "=>"
BeforeFirstArrow(r) ==
    LET i == CHOOSE a \in ArrowsIn(r) : \A b \in ArrowsIn(r) : a <= b
    IN  SubSeq(r, 1, i - 1)

\* the four ways a trimmed line t is malformed
TooShort(t) == Len(t) < 3
BadOperator(t) == t[1] \notin {"+", "-"}
NoArrow(t) == ArrowsIn(Tail(t)) = {}
NoTable(t) == IsBlank(BeforeFirstArrow(Tail(t)))
Malformed(t) == TooShort(t) \/ BadOperator(t) \/ NoArrow(t) \/ NoTable(t)

(***************************************************************************)
(* C20: parseDiffLine always returns; it returns an error exactly when the *)
(* trimmed line has fewer than 3 characters, or does not start with + or   *)
(* -, or has no "=>" after the operator, or has an empty table name (the   *)
(* trimmed text between the operator and the first "=>"); a result without *)
(* error has operation + or - and a non-empty table.                       *)
(***************************************************************************)
C20_ParseErrorsExactly ==
    IsParseCall =>
        /\ ret.state = "returned"
        /\ ret.parsed.err # "none" <=> Malformed(TrimSpace(call.line))
        /\ ret.parsed.err = "none" =>
              /\ ret.parsed.op \in {"+", "-"}
              /\ ret.parsed.table # <<>>
              /\ ret.parsed.table = TrimSpace(BeforeFirstArrow(Tail(TrimSpace(call.line))))

C20_Witness ==
    /\ IsParseCall
    /\ call.line = <<"-", "T", "=", ">">>
    /\ ret.parsed.err = "none"
    /\ ret.parsed.op = "-"
    /\ ret.parsed.table = <<"T">>

(***************************************************************************)
(* Vocabulary of the values of a line: the text after the first "=>" and   *)
(* its fields between the pipes.                                           *)
(***************************************************************************)
\* the trimmed text of the trimmed line t after its first "=>"
AfterFirstArrow(t) ==
    LET r == Tail(t)
        i == CHOOSE a \in ArrowsIn(r) : \A b \in ArrowsIn(r) : a <= b
    IN  TrimSpace(SubSeq(r, i + 2, Len(r)))

PipesIn(r) == {i \in 1..Len(r) : r[i] = "|"}

\* the position of the k-th pipe of r; 0 for k = 0, Len(r) + 1 past the last
PipeAt(r, k) ==
    IF k = 0 THEN 0
    ELSE IF k > Cardinality(PipesIn(r)) THEN Len(r) + 1
    ELSE CHOOSE i \in PipesIn(r) : Cardinality({j \in PipesIn(r) : j <= i}) = k

\* the k-th field of r: the text between its (k-1)-th and its k-th pipe
Field(r, k) == SubSeq(r, PipeAt(r, k - 1) + 1, PipeAt(r, k) - 1)

FieldCount(r) == IF r = <<>> THEN 0 ELSE Cardinality(PipesIn(r)) + 1

ValidParse == IsParseCall /\ ret.parsed.err = "none"

WrittenOpAndTable ==
    LET t == TrimSpace(call.line)
    IN  /\ ret.parsed.op = t[1]
        /\ ret.parsed.table = TrimSpace(BeforeFirstArrow(Tail(t)))

IsCompareCall == call.fn = "compareTableRows" /\ ret # NoRet

NoPipe(row) == \A i \in 1..Len(row) : IndexOf(row[i], Pipe) = 0

\* the record read back from a written text: cut into lines as the reader of
\* the transform file does, the one line parsed
ParsedWrite(w) == parseDiffLine(ScanLines(w)[1])

RecordOf(o, table, row) == [err |-> "none", op |-> o, table |-> table, values |-> row]

\* every row of snap with no pipe and no key in other is read back, from one
\* of the writes, as the record (o, table, the row's values)
ReadBack(o, snap, other) ==
    \A i \in 1..Len(snap) :
        (NoPipe(snap[i]) /\ RowKey(snap[i]) \notin KeySet(other)) =>
            \E k \in 1..Len(ret.writes) :
                ParsedWrite(ret.writes[k]) = RecordOf(o, call.table, snap[i])

(***************************************************************************)
(* C22: round trip.  For every record (Add or Remove, a table, values      *)
(* without a pipe, possibly none or empty ones), parsing the line the diff *)
(* serializer writes for it gives the record back.                         *)
(***************************************************************************)
C22_RoundTrip ==
    IsCompareCall =>
        /\ ReadBack("+", call.mod, call.orig)
        /\ ReadBack("-", call.orig, call.mod)

PresentIn(key, snap) == \E i \in 1..Len(snap) : RowKey(snap[i]) = key

WritesOfLine(l) == Cardinality({k \in 1..Len(ret.writes) : ret.writes[k] = l})

AllKeys == KeySet(call.orig) \cup KeySet(call.mod)

(***************************************************************************)
(* C23: comparing a snapshot with itself emits no record, whatever its     *)
(* rows (duplicates and empty rows included).                              *)
(***************************************************************************)
C23_SelfDiffEmpty ==
    (IsCompareCall /\ call.orig = call.mod) => ret.writes = <<>>

\* a snapshot of twice the empty row
C23_Witness ==
    /\ IsCompareCall
    /\ call.orig = <<<<>>, <<>>>>
    /\ call.mod = call.orig
    /\ ret.writes = <<>>

(***************************************************************************)
(* C24: compareTableRows emits exactly one Add record for each distinct    *)
(* row key of the modified snapshot that the original lacks, exactly one   *)
(* Remove record for each distinct key of the original that the modified   *)
(* lacks, and nothing else; a key of both snapshots produces nothing.      *)
(***************************************************************************)
C24_ExactlyTheDifferences ==
    IsCompareCall =>
        /\ \A key \in AllKeys :
              /\ WritesOfLine(DiffLine("+", call.table, key))
                    = IF PresentIn(key, call.mod) /\ ~PresentIn(key, call.orig) THEN 1 ELSE 0
              /\ WritesOfLine(DiffLine("-", call.table, key))
                    = IF PresentIn(key, call.orig) /\ ~PresentIn(key, call.mod) THEN 1 ELSE 0
        /\ \A k \in 1..Len(ret.writes) :
              \E key \in AllKeys, o \in {"+", "-"} : ret.writes[k] = DiffLine(o, call.table, key)

\* the key "a" twice in the original and gone, "a|b" new, the empty key kept
C24_Witness ==
    /\ IsCompareCall
    /\ call.orig = <<<<<<"a">>>>, <<<<"a">>>>>>
    /\ call.mod = <<<<<<"a">>, <<"b">>>>>>
    /\ ret.writes = <<DiffLine("+", TableT, <<"a", "|", "b">>), DiffLine("-", TableT, <<"a">>)>>

(***************************************************************************)
(* Vocabulary of the diff/apply inverse.                                   *)
(***************************************************************************)
CountIn(row, snap) == Cardinality({i \in 1..Len(snap) : snap[i] = row})

\* the same rows the same number of times, in any order
SameBag(s, t) ==
    \A row \in {s[i] : i \in 1..Len(s)} \cup {t[i] : i \in 1..Len(t)} :
        CountIn(row, s) = CountIn(row, t)

\* the transform documents GenerateTransform can write for one table
DiffDocs(table, a, b) == {ScanLines(Flatten(w)) : w \in compareTableRows(table, a, b)}

\* snapshots B of table T built from the rows the documents name
TargetRows == {<<<<"a", "'", "c">>>>, <<<<"a">>, <<"b">>>>}
TargetSnapshots == SnapshotsOver(TargetRows, MaxSnapshot)

(***************************************************************************)
(* C25: diff/apply inverse.  When the document applied (not a dry run, not *)
(* interactive) is the diff computed from the table's snapshot A before    *)
(* the run and a snapshot B without pipes, and the run succeeds, the rows  *)
(* the package holds afterwards are those of B as a multiset.              *)
(***************************************************************************)
C25_DiffApplyInverse ==
    (IsApply /\ Returned /\ result = Ok /\ ~dryRun /\ ~interactive) =>
        \A b \in TargetSnapshots :
            ((\A i \in 1..Len(b) : NoPipe(b[i]))
               /\ doc \in DiffDocs(TableT, SnapshotOf(InitialRows, TableT), b))
              => SameBag(SnapshotOf(dbSaved, TableT), b)

(***************************************************************************)
(* Vocabulary of GenerateTransform's properties.                           *)
(***************************************************************************)
IsGenerateCall == call.fn = "GenerateTransform"
Generated == IsGenerateCall /\ ret # NoRet /\ ret.err = "nil"
ListedTables == call.origTables.tables \cup call.modTables.tables

\* the lines of the written file that name the table
FileLines == ScanLines(ret.file)
LinesOfTable(table) ==
    {FileLines[i] : i \in {j \in 1..Len(FileLines) :
                              HasPrefixAt(FileLines[j], table \o <<" ">> \o Arrow, 3)}}

\* the lines that turn every key of the rows into a record with operator o
AllAs(o, table, rows) == {ScanLines(DiffLine(o, table, key))[1] : key \in KeySet(rows)}

ReadOf(table, pkg) == call.reads[<<table, pkg>>]

(***************************************************************************)
(* C26: in GenerateTransform a table readable in only one package does not *)
(* fail the operation: it is compared with an empty snapshot, so all its   *)
(* rows become Add records (readable in the modified package only) or      *)
(* Remove records (in the original only); a table unreadable in both is    *)
(* skipped, and the other tables are still processed.                      *)
(***************************************************************************)
C26_OneSidedTablesTolerated ==
    /\ (IsGenerateCall /\ loc.pc = "done" /\ call.present = Packages
          /\ call.origTables.ok /\ call.modTables.ok)
         => ret.err \in {"nil", "failed to write transform file"}
    /\ Generated =>
         \A table \in ListedTables :
             LET r1 == ReadOf(table, "orig")
                 r2 == ReadOf(table, "mod")
             IN  /\ (~r1.ok /\ ~r2.ok) => LinesOfTable(table) = {}
                 /\ (~r1.ok /\ r2.ok) => LinesOfTable(table) = AllAs("+", table, r2.rows)
                 /\ (r1.ok /\ ~r2.ok) => LinesOfTable(table) = AllAs("-", table, r1.rows)
                 /\ (r1.ok /\ r2.ok) =>
                       LinesOfTable(table) =
                           AllAs("+", table, SelectSeq(r2.rows,
                                   LAMBDA row : RowKey(row) \notin KeySet(r1.rows)))
                           \cup AllAs("-", table, SelectSeq(r1.rows,
                                   LAMBDA row : RowKey(row) \notin KeySet(r2.rows)))

\* T is unreadable in both packages, U is readable in the modified one only
C26_Witness ==
    /\ Generated
    /\ ListedTables = TableNames
    /\ ~ReadOf(TableT, "orig").ok /\ ~ReadOf(TableT, "mod").ok
    /\ ~ReadOf(TableU, "orig").ok /\ Len(ReadOf(TableU, "mod").rows) = 2
    /\ Len(FileLines) = 2
    /\ LinesOfTable(TableU) = AllAs("+", TableU, ReadOf(TableU, "mod").rows)

(***************************************************************************)
(* Vocabulary of the SQL builder's properties: a statement read as the     *)
(* database reads it.  A literal runs from a quote to the next quote that  *)
(* is not doubled, and a doubled quote inside it stands for one quote.     *)
(***************************************************************************)
\* the literals of s from position i on, and s with "?" for each literal
RECURSIVE Lex(_, _, _, _, _, _)
Lex(s, i, inLit, lit, lits, skel) ==
    IF i > Len(s) THEN [lits |-> lits, skel |-> skel, closed |-> ~inLit]
    ELSE IF ~inLit
    THEN IF s[i] = "'" THEN Lex(s, i + 1, TRUE, <<>>, lits, skel)
         ELSE Lex(s, i + 1, FALSE, <<>>, lits, Append(skel, s[i]))
    ELSE IF s[i] = "'" /\ i < Len(s) /\ s[i + 1] = "'"
    THEN Lex(s, i + 2, TRUE, Append(lit, "'"), lits, skel)
    ELSE IF s[i] = "'"
    THEN Lex(s, i + 1, FALSE, <<>>, Append(lits, lit), Append(skel, "?"))
    ELSE Lex(s, i + 1, TRUE, Append(lit, s[i]), lits, skel)

Read(s) == Lex(s, 1, FALSE, <<>>, <<>>, <<>>)

IsBuildCall == call.fn = "buildSQL" /\ ret # NoRet

\* "INSERT INTO `t` VALUES (?,...,?)" with n marks
InsertShape(t, n) ==
    InsertPrefix \o t \o InsertMid \o Join([i \in 1..n |-> <<"?">>], <<",">>) \o <<")">>

\* "DELETE FROM `t` WHERE COL1=? AND ... AND COLn=?"
DeleteShape(t, n) ==
    DeletePrefix \o t \o DeleteMid
      \o Join([i \in 1..n |-> ColPrefix \o Itoa(i) \o <<"=", "?">>], AndSep)

QuotesIn(s) == Cardinality({i \in 1..Len(s) : s[i] = "'"})

RECURSIVE QuotesInAll(_)
QuotesInAll(vs) == IF vs = <<>> THEN 0 ELSE QuotesIn(Head(vs)) + QuotesInAll(Tail(vs))

(***************************************************************************)
(* C27: buildSQL turns an Add record into an INSERT into the record's      *)
(* table whose literals are the record's values, one per value and in      *)
(* order, and a Remove record into a DELETE on the table whose filter is   *)
(* the AND of one equality per value, the i-th against COLi; every quote   *)
(* inside a value stands doubled in the statement.                         *)
(***************************************************************************)
C27_StatementOfRecord ==
    (IsBuildCall /\ call.op \in {"+", "-"}) =>
        LET r == Read(ret.sql)
            n == Len(call.vals)
        IN  /\ r.closed
            /\ r.lits = call.vals
            /\ r.skel = IF call.op = "+" THEN InsertShape(call.table, n)
                        ELSE DeleteShape(call.table, n)
            /\ QuotesIn(ret.sql) = 2 * n + 2 * QuotesInAll(call.vals)

\* DELETE FROM `T` WHERE COL1='a''b' AND COL2=''
C27_Witness ==
    /\ IsBuildCall
    /\ call.op = "-"
    /\ call.table = TableT
    /\ call.vals = <<<<"a", "'", "b">>, <<>>>>
    /\ ret.sql = DeletePrefix \o TableT \o DeleteMid
                   \o <<"C", "O", "L", "1", "=", "'", "a", "'", "'", "b", "'">>
                   \o AndSep \o <<"C", "O", "L", "2", "=", "'", "'">>

(***************************************************************************)
(* Vocabulary of the edit operations' properties.                          *)
(***************************************************************************)
IsEditCall == call.fn \in EditFns
DryEdit == IsEditCall /\ call.dryRun
EditReturned == IsEditCall /\ ret # NoRet

(***************************************************************************)
(* C28: with dry-run enabled EditTable and EditRecord issue no Commit, and *)
(* the rows the package persists stay what they were before the call,      *)
(* whatever the set clause, the row number and the operator's answer.      *)
(***************************************************************************)
C28_DryEditPersistsNothing ==
    DryEdit => commits = 0 /\ dbSaved = InitialRows

\* a dry run of EditRecord, confirmed by the operator, has executed its
\* UPDATE on the open database: the working rows differ, the saved do not
C28_Witness ==
    /\ DryEdit
    /\ call.fn = "EditRecord"
    /\ call.interactive
    /\ call.rowNum = 1
    /\ loc.pc = "executed"
    /\ dbWork # InitialRows
    /\ dbSaved = InitialRows
    /\ commits = 0

(***************************************************************************)
(* Vocabulary of the spinner's isolation.                                  *)
(***************************************************************************)
\* a step of the spinner task: it is running and its position changes
SpinnerStep == spinner \in {"poll", "sleep"} /\ spinner' # spinner

\* a step that uses the database handle: a view is opened or executed, rows
\* change, a commit is issued, a session opens or closes
HandleStep == eqVars' # eqVars \/ dbVars' # dbVars \/ sessVars' # sessVars

\* all the applier owns: its inputs, position, log, statement list,
\* sessions, rows, queries in progress, and the signal
ApplierState == <<inputs, pc, trace, result, applyVars, sessVars, dbVars, eqVars, discVars,
                  retryVars, answered, done, doneCloses>>

(***************************************************************************)
(* C29: the spinner task ApplyTransform starts touches nothing of the      *)
(* applier: a step of it issues no query on the session handle and leaves  *)
(* the statement list, the session and every other applier variable as     *)
(* they are, the signal included (which it only polls); so no step of the  *)
(* spinner is a step using the database handle.                            *)
(***************************************************************************)
C29_SpinnerIsolated ==
    [][SpinnerStep => (UNCHANGED ApplierState /\ ~HandleStep)]_vars

\* the spinner sleeps between two frames while a statement is being executed
C29_Witness ==
    /\ IsApply
    /\ spinner = "sleep"
    /\ pc = "at_exec"
    /\ eqPc = "execute"
    /\ done = "open"

(***************************************************************************)
(* Vocabulary of the row formatter's properties.                           *)
(***************************************************************************)
IsFormatCall == call.fn = "FormatRows" /\ ret # NoRet

\* the lines of a text: the pieces its line breaks end (nothing follows the
\* last break)
LineBreak == <<"\n">>
PiecesOf(text) == Split(text, LineBreak)
OutputLines == SubSeq(PiecesOf(ret.text), 1, Len(PiecesOf(ret.text)) - 1)
EndsWithBreak == PiecesOf(ret.text)[Len(PiecesOf(ret.text))] = <<>>

\* "[i] v1 | v2 | ..."
RowLine(i, row) == <<"[">> \o Itoa(i) \o <<"]", " ">> \o Join(row, ColumnSep)

OneLinePerRow ==
    /\ EndsWithBreak
    /\ Len(OutputLines) = Len(call.rows)
    /\ \A i \in 1..Len(call.rows) : OutputLines[i] = RowLine(i, call.rows[i])

NoBreakIn(rows) ==
    \A i \in 1..Len(rows) : \A c \in 1..Len(rows[i]) : IndexOf(rows[i][c], LineBreak) = 0

(***************************************************************************)
(* C30 as stated: FormatRows renders the rows in input order, one line per *)
(* row, the i-th row as "[i] " and its values in order joined by " | ";    *)
(* the output has as many lines as there are rows.                         *)
(***************************************************************************)
C30_OneLinePerRow ==
    IsFormatCall => OneLinePerRow

(***************************************************************************)
(* C30, amended: the same for rows none of whose values holds a line       *)
(* break.                                                                  *)
(***************************************************************************)
C30_OneLinePerRowWithoutBreaks ==
    (IsFormatCall /\ NoBreakIn(call.rows)) => OneLinePerRow

\* two rows, the first with two columns: "[1] a | b" and "[2] a"
C30_Witness ==
    /\ IsFormatCall
    /\ call.rows = <<<<<<"a">>, <<"b">>>>, <<<<"a">>>>>>
    /\ OutputLines = <<<<"[", "1", "]", " ", "a", " ", "|", " ", "b">>,
                       <<"[", "2", "]", " ", "a">>>>

(***************************************************************************)
(* Vocabulary of the nesting of ExecuteQuery.                              *)
(***************************************************************************)
\* the calls of ExecuteQuery in progress, the outermost included
QueryDepth == Len(eqStack)

\* the innermost call is a column-count lookup of a column-count lookup
LookupOfLookup ==
    /\ QueryDepth >= 3
    /\ \E t \in {extractTableName(eqStack[QueryDepth - 1])} : EqTop = CountSQL(t)
    /\ extractTableName(EqTop) # <<>>

(***************************************************************************)
(* C31: every call of ExecuteQuery terminates, in both access modes and    *)
(* for every statement, when each database call returns: the column-count  *)
(* lookup it triggers nests only to a bounded depth, so the calls in       *)
(* progress never reach the depth the model stops at, and no lookup asks   *)
(* for a lookup of its own.                                                *)
(***************************************************************************)
C31_LookupDepthBounded ==
    QueryDepth < MaxDepth /\ ~LookupOfLookup

(***************************************************************************)
(* Vocabulary of the COM balance.                                          *)
(***************************************************************************)
\* the initialisations in force before the operation started
ComBaseline == IF comInitialized THEN 1 ELSE 0

\* the initialisations held by sessions that are open
ComHeldBySessions == Cardinality({i \in OpenSessions(sess) : sess[i].localCOM})

(***************************************************************************)
(* C32: a failed attempt inside OpenMsiSession releases all it acquired    *)
(* before it returns; a COM initialisation the attempt made itself is      *)
(* matched by one uninitialisation, so the initialisations in force are    *)
(* always those from before the operation plus one per open session that   *)
(* initialised COM itself, whatever attempts have failed.                  *)
(***************************************************************************)
C32_FailedOpenReleasesAll ==
    comBalance = ComBaseline + ComHeldBySessions

\* the reference count and the flag agree
ComCountConsistent ==
    /\ api.comInitCount >= 0
    /\ api.comInitialized <=> api.comInitCount > 0
\* what one InitCOM or CleanupCOM call may do to the COM runtime
ComTransitions ==
    /\ api'.coInits # api.coInits => api.comInitCount = 0 /\ api'.comInitCount = 1
    /\ api'.coUninits # api.coUninits => api.comInitCount = 1 /\ api'.comInitCount = 0
    /\ (/\ api'.calls # api.calls
        /\ api'.last.fn = "InitCOM"
        /\ api'.last.err # "nil") => api'.comInitCount = api.comInitCount

(* C33: after any sequence of InitCOM and CleanupCOM calls, failing InitCOM *)
(* calls and surplus CleanupCOM calls included, comInitCount is never       *)
(* negative, comInitialized is true exactly when comInitCount > 0, InitCOM  *)
(* initialises COM only when it takes the count from 0 to 1, CleanupCOM     *)
(* uninitialises it only when it takes the count from 1 to 0, and a failed  *)
(* InitCOM leaves the count as it was.                                      *)
C33_ComReferenceCount ==
    [](ComCountConsistent) /\ [][ComTransitions]_vars
\* two rounds of InitCOM and CleanupCOM calls ending in a released runtime
C33_Witness ==
    /\ api.calls = MaxApiCalls /\ api.s.state = "none"
    /\ api.last = [fn |-> "CleanupCOM", err |-> "nil"]
    /\ api.comInitCount = 0 /\ api.coInits = 1 /\ api.coUninits = 1

\* initialisations of the COM runtime not yet undone
ComRuntimeBalance ==
    api.coInits + api.sessInits - api.coUninits - api.openUninits - api.closeUninits
SessionHasCom == api.s.state = "open" => ComRuntimeBalance >= 1
UninitsWithinInits ==
    api.coUninits + api.openUninits + api.closeUninits <= api.coInits + api.sessInits

(* C34: under every interleaving of OpenMsiSession and Close with InitCOM   *)
(* and CleanupCOM, whenever the session is open the COM runtime has at      *)
(* least one initialisation that is not yet undone, and the uninitialise    *)
(* calls never outnumber the successful initialise calls.                   *)
C34_NoSessionWithoutCom ==
    SessionHasCom /\ UninitsWithinInits

\* a call of one of the session's working methods has just returned
MethodReturned == api'.calls # api.calls /\ api'.last.fn \in SessionMethods
ClosedSessionStays ==
    api.s.state = "closed" =>
        /\ api'.s.state = "closed"
        /\ MethodReturned =>
              /\ api'.last.err = "session is closed"
              /\ api'.dbCalls = api.dbCalls /\ api'.dbCommits = api.dbCommits

(* C35: once the session is closed, every later ExecuteQuery, Commit,       *)
(* EditTable or EditRecord on it returns the error "session is closed"      *)
(* without a call on the database handle, and the session is never open     *)
(* again.                                                                   *)
C35_ClosedSessionRefuses ==
    [][ClosedSessionStays]_vars
\* a working method has answered on the closed session
C35_Witness ==
    /\ api.s.state = "closed" /\ api.closeCalls = 1
    /\ api.last.fn \in SessionMethods /\ api.last.err = "session is closed"

\* what the Close calls made so far have released
CloseReleasesOnce ==
    LET n == IF api.closeCalls >= 1 THEN 1 ELSE 0
    IN  /\ api.dbReleases = n /\ api.instReleases = n
        /\ api.closeUninits = IF api.s.localCOM THEN n ELSE 0
RepeatedCloseIdle ==
    (api.s.state = "closed" /\ api'.closeCalls # api.closeCalls) =>
        /\ api'.last = [fn |-> "Close", err |-> "nil"]
        /\ api' = [api EXCEPT !.calls = api'.calls, !.closeCalls = api'.closeCalls,
                              !.last = api'.last]

(* C36: over any number of Close calls on the session the database handle  *)
(* and the installer handle are each released exactly once, COM is          *)
(* uninitialised at most once and only if the session initialised it, and   *)
(* every Close after the first returns nil and changes nothing.             *)
C36_CloseIdempotent ==
    [](CloseReleasesOnce) /\ [][RepeatedCloseIdle]_vars
\* a second Close on a session that initialised COM itself
C36_Witness ==
    /\ api.closeCalls >= 2 /\ api.s.state = "closed" /\ api.s.localCOM
    /\ api.last.fn = "Close"

\* a writing method has just returned
WriterReturned ==
    api'.calls # api.calls /\ api'.last.fn \in {"Commit", "EditTable", "EditRecord"}
ReadOnlyRefuses ==
    (api.s.state = "open" /\ api.s.mode = 0 /\ WriterReturned) =>
        /\ api'.last.err # "nil"
        /\ api'.dbCalls = api.dbCalls /\ api'.dbCommits = api.dbCommits
CommitNeedsReadWrite ==
    api'.dbCommits # api.dbCommits => api.s.state = "open" /\ api.s.mode = 1
\* no session exists, or is being opened, in a mode other than 0 and 1
ModeChecked == api.s.state # "none" => api.s.mode \in {0, 1}

(* C37: Commit, EditTable and EditRecord on a session opened in mode 0      *)
(* return an error without a call on the database handle, a Commit reaches  *)
(* the database only through an open session of mode 1, and OpenMsiSession  *)
(* yields no session for a mode other than 0 and 1.                         *)
C37_ReadOnlyNeverWrites ==
    [](ModeChecked) /\ [][ReadOnlyRefuses /\ CommitNeedsReadWrite]_vars
\* a Commit refused by an open read-only session
C37_Witness ==
    /\ api.s.state = "open" /\ api.s.mode = 0
    /\ api.last = [fn |-> "Commit", err |-> "commit not allowed in read-only mode"]
    /\ api.dbCalls = 0

\* in.ReadString('\n') returned an error: the input ended before a line break
ReadFailed(answer) == Len(answer) = 0 \/ answer[Len(answer)] # "\n"
\* the latest step of the loop was a prompt whose read failed
PromptReadFailed ==
    /\ IsApply /\ interactive /\ answered.given /\ ReadFailed(answered.text)
    /\ trace # <<>> /\ trace[Len(trace)][1] \in {"confirmed", "skipped"}

(* C38: in interactive mode, when reading the operator's answer fails (end  *)
(* of input, for one), the statement is skipped, nothing goes to the        *)
(* database for it, and the loop goes on with the next statement.           *)
C38_FailedReadDeclines ==
    PromptReadFailed =>
        /\ trace[Len(trace)][1] = "skipped"
        /\ idx = trace[Len(trace)][2] + 1
        /\ result.status # "err"
        /\ \/ pc = LoopPc(idx, Len(queries))
           \/ idx > Len(queries) /\ pc \in {"at_commit", "at_ret", "done"}

\* the operator declined every statement of a run that has statements
AllDeclined ==
    /\ queries # <<>>
    /\ \A k \in 1..Len(queries) : EventsOf({"skipped"}, k) # {}

(* C39: an interactive run that is not a dry run and in which the operator  *)
(* declined every statement sends no statement to the database and still    *)
(* issues exactly one Commit, after the loop; it returns success when that  *)
(* Commit succeeds, although no statement was executed.                     *)
C39_CommitWithoutWork ==
    (IsApply /\ interactive /\ ~dryRun /\ Returned /\ AllDeclined) =>
        /\ EventsOfKind({"begin", "dbexec", "executed", "simulated"}) = {}
        /\ dbWork = InitialRows
        /\ commits = 1
        /\ EventsOfKind({"commit"}) = {Len(trace)}
        /\ Len(trace[Len(trace)]) = 2 => result.status = "ok"
C39_Witness ==
    /\ IsApply /\ interactive /\ ~dryRun /\ Returned
    /\ Len(queries) = 2
    /\ trace = <<<<"skipped", 1>>, <<"skipped", 2>>, <<"commit", 0>>>>
    /\ result.status = "ok" /\ commits = 1

\* the ways a run of ApplyTransform can end
Committed ==
    /\ result.status = "ok" /\ ~dryRun
    /\ trace # <<>> /\ trace[Len(trace)] = <<"commit", 0>>
    /\ dbSaved = dbWork
DryRunComplete == result.status = "ok" /\ dryRun /\ commits = 0
Aborted == result.status = "err"
ExactlyOneEnd ==
    Cardinality({e \in {"committed", "dry", "aborted"} :
                    \/ e = "committed" /\ Committed
                    \/ e = "dry" /\ DryRunComplete
                    \/ e = "aborted" /\ Aborted}) = 1
SessionsClosed == OpenSessions(sess) = {}

(* C40: with every prompt answered and every database call returning, each *)
(* run of ApplyTransform eventually returns, and when it has returned it is *)
(* in exactly one of three end states: committed (success, not a dry run),  *)
(* dry run complete with no Commit, or aborted with an error; in each the   *)
(* session, if one was opened, is closed.                                   *)
C40_RunEnds ==
    /\ <>Returned
    /\ [](Returned => ExactlyOneEnd /\ SessionsClosed)
\* a run that returned committed after a session was opened and closed
C40_Witness ==
    /\ IsApply /\ Returned /\ Committed
    /\ opens = 1 /\ closes = 1 /\ SessionsClosed
====
